---------------------------- MODULE Spec2Model ----------------------------
(***************************************************************************)
(* A model of wdrc_rs, the Wikidata recent-changes logger:                 *)
(*   - the identifier codec            (wdrc.rs, make_id_numeric)          *)
(*   - the recent-change aggregator    (recent_changes.rs / wdrc.rs)       *)
(*   - the revision diff engine        (revision_compare.rs)               *)
(*   - the fetch-diff pipeline and the sync cycle (wdrc.rs, run_once)      *)
(*   - text interning                  (wdrc.rs, get_or_create_text_id)    *)
(*   - a fetch-diff task               (revision_compare.rs, run)          *)
(*                                                                         *)
(* Strings are sequences of one-character strings, so that slicing,        *)
(* parsing and the byte-wise string order of Rust are computed, not        *)
(* assumed.  Option<T> is a sequence of length 0 (None) or 1 (Some).       *)
(***************************************************************************)
EXTENDS Integers, Sequences, FiniteSets, TLC

VARIABLES
    pc,        \* position of the process / of the function under analysis
    events,    \* Vec<RecentChanges>: the feed batch handed to the aggregator
    rc,        \* RecentChangesResults: new_items and changed_items
    rev_old,   \* diff engine: the old revision document (serde_json::Value)
    rev_new,   \* diff engine: the new revision document
    diff,      \* diff engine: what compare_revisions returned
    meta,      \* table `meta` of the wdrc database: key -> Option<value>
    texts,     \* table `texts`: the values, the id of a row is its position
    statements,\* table `statements`
    labels,    \* table `labels`
    creations, \* table `creations`: q -> timestamp
    deletions, \* table `deletions`: q -> timestamp
    redirects, \* table `redirects`
    text_cache,         \* WdRc.text_cache
    max_recent_changes, \* WdRc.max_recent_changes
    rc_oldest, \* get_recent_changes: the watermark that was read (oldest)
    feed,      \* table `recentchanges` (namespace 0) as the query saw it
    queue,     \* pipeline: the futures buffer_unordered has not pulled yet
    in_flight, \* pipeline: the futures in progress
    completed, \* pipeline: the results, in the order of completion
    changes,   \* log_recent_changes: the collected change records
    del,       \* the future update_recent_deletions of this cycle
    red,       \* the future update_recent_redirects of this cycle
    run_result,\* what the last run_once returned
    cycles,    \* number of run_once calls so far
    start_meta,\* history: table `meta` when the cycle began
    failures,  \* history: the database calls of this cycle that failed
    pool,      \* the pipeline with its work units counted, not told apart
    rc_twice,  \* aggregator: RecentChangesResults of the batch repeated
    fallback,  \* get_last_rc_timetamp: the argument oldest
    last_ts,   \* get_last_rc_timetamp: what it returned
    codec_in,  \* make_id_numeric: the argument id
    codec_out, \* make_id_numeric: what it returned
    calls,     \* history: the calls of get_or_create_text_id so far
    task,      \* RevisionCompare::run: the work unit (q, old, new)
    reply,     \* RevisionCompare::run: what the API request returned
    task_out,  \* RevisionCompare::run: what it returned
    command,   \* main: the command of the command line (args[1])
    hung,      \* pipeline: the futures in progress whose fetch never returns
    pass,      \* write path run again: the number of the pass
    first_pass \* history: `statements` and `labels` after the first pass

aggVars   == <<events, rc>>
diffVars  == <<rev_old, rev_new, diff>>
storeVars == <<meta, texts, statements, labels, creations, deletions, redirects>>
wdrcVars  == <<text_cache, max_recent_changes>>
cycleVars == <<rc_oldest, feed, queue, in_flight, completed, changes, del, red,
               run_result, cycles, start_meta, failures>>
unitVars  == <<rc_twice, fallback, last_ts, codec_in, codec_out, calls, task, reply,
               task_out>>
mainVars  == <<command, hung, pass, first_pass>>
vars == <<pc, aggVars, diffVars, storeVars, wdrcVars, cycleVars, pool, mainVars,
          unitVars>>

---------------------------------------------------------------------------
(* Strings *)

\* Byte value of the characters that occur in the model (ASCII).
CharCode(c) ==
    CASE c = "+" -> 43
      [] c = "0" -> 48 [] c = "1" -> 49 [] c = "2" -> 50 [] c = "3" -> 51
      [] c = "4" -> 52 [] c = "5" -> 53 [] c = "6" -> 54 [] c = "7" -> 55
      [] c = "8" -> 56 [] c = "9" -> 57
      [] c = "P" -> 80 [] c = "Q" -> 81 [] c = "x" -> 120

IsDigit(c) == c \in {"0", "1", "2", "3", "4", "5", "6", "7", "8", "9"}

DigitVal(c) == CharCode(c) - 48

\* Ord for String: lexicographic on bytes, a proper prefix is smaller.
RECURSIVE StrLt(_, _)
StrLt(a, b) ==
    IF b = <<>> THEN FALSE
    ELSE IF a = <<>> THEN TRUE
    ELSE IF Head(a) = Head(b) THEN StrLt(Tail(a), Tail(b))
    ELSE CharCode(Head(a)) < CharCode(Head(b))

StrLe(a, b) == a = b \/ StrLt(a, b)

\* Iterator::max over strings; the set is not empty.
StrMax(S) == CHOOSE m \in S : \A s \in S : StrLe(s, m)

\* All sequences over S of length at most n.
BoundedSeq(S, n) == UNION {[1..k -> S] : k \in 0..n}

Range(s) == {s[i] : i \in DOMAIN s}

\* All enumerations of a finite set as a sequence without repetition.
Perms(S) ==
    {p \in [1..Cardinality(S) -> S] : \A i, j \in 1..Cardinality(S) : p[i] = p[j] => i = j}

---------------------------------------------------------------------------
(* Identifier codec: WdRc::make_id_numeric *)

Ok(v)  == [kind |-> "ok", val |-> v]
Err    == [kind |-> "err", val |-> 0]
Panic  == [kind |-> "panic", val |-> 0]

\* str::parse::<u64> on a string of digits (most significant first).
RECURSIVE DigitsValue(_)
DigitsValue(s) ==
    IF s = <<>> THEN 0
    ELSE 10 * DigitsValue(SubSeq(s, 1, Len(s) - 1)) + DigitVal(s[Len(s)])

\* u64::from_str: an optional leading '+', then one or more decimal digits.
\* (Overflow of u64 is an error as well; the identifiers of the model are far
\* too short to reach it.)
ParseU64(s) ==
    LET body == IF s # <<>> /\ Head(s) = "+" THEN Tail(s) ELSE s
    IN  IF body = <<>> \/ \E i \in DOMAIN body : ~IsDigit(body[i])
        THEN Err
        ELSE Ok(DigitsValue(body))

\* The number of bytes of a character in UTF-8.
ByteLen(c) == IF c = "é" THEN 2 ELSE 1

\* `&id[1..]` panics on the empty string and when byte 1 is inside the first
\* character; a parse error and zero are Err.
make_id_numeric(id) ==
    IF id = <<>> \/ ByteLen(Head(id)) > 1 THEN Panic
    ELSE LET q == ParseU64(Tail(id))
         IN  IF q.kind # "ok" THEN Err
             ELSE IF q.val = 0 THEN Err
             ELSE Ok(q.val)

---------------------------------------------------------------------------
(* Recent-change aggregator: RecentChangesResults *)

MapInsert(m, k, v) == [x \in (DOMAIN m) \cup {k} |-> IF x = k THEN v ELSE m[x]]

EmptyMap == [x \in {} |-> 0]

\* FoldStep with a slip: a later edit always overwrites the new revision, and
\* the old revision follows the latest row.
FoldStep_LastWins(maps, result) ==
    LET q == result.rc_title
    IN  IF result.rc_new
        THEN [maps EXCEPT !.new_items =
                 MapInsert(@, q, [q |-> q, timestamp |-> result.rc_timestamp])]
        ELSE [maps EXCEPT !.changed_items =
                 MapInsert(@, q,
                     [q |-> q,
                      timestamp |-> IF q \in DOMAIN @ THEN @[q].timestamp
                                    ELSE result.rc_timestamp,
                      new |-> result.rc_this_oldid,
                      old |-> IF q \in DOMAIN @ THEN @[q].old
                              ELSE result.rc_last_oldid])]

\* FoldStep with a slip: on a later edit of a title the old revision is moved
\* up to the new revision held so far.
FoldStep_OldFollows(maps, result) ==
    LET q == result.rc_title
    IN  IF result.rc_new
        THEN [maps EXCEPT !.new_items =
                 MapInsert(@, q, [q |-> q, timestamp |-> result.rc_timestamp])]
        ELSE IF q \in DOMAIN maps.changed_items
        THEN LET ci == maps.changed_items[q]
             IN  [maps EXCEPT !.changed_items[q].old = ci.new,
                              !.changed_items[q].new =
                                  IF ci.new < result.rc_this_oldid
                                  THEN result.rc_this_oldid ELSE ci.new]
        ELSE [maps EXCEPT !.changed_items =
                 MapInsert(@, q,
                     [q |-> q, timestamp |-> result.rc_timestamp,
                      new |-> result.rc_this_oldid, old |-> result.rc_last_oldid])]

\* FoldStep with a slip: the first creation of a title is kept
\* (entry().or_insert instead of insert).
FoldStep_FirstCreation(maps, result) ==
    LET q == result.rc_title
    IN  IF result.rc_new
        THEN IF q \in DOMAIN maps.new_items THEN maps
             ELSE [maps EXCEPT !.new_items =
                      MapInsert(@, q, [q |-> q, timestamp |-> result.rc_timestamp])]
        ELSE IF q \in DOMAIN maps.changed_items
        THEN LET ci == maps.changed_items[q]
             IN  IF ci.new < result.rc_this_oldid
                 THEN [maps EXCEPT !.changed_items[q].new = result.rc_this_oldid]
                 ELSE maps
        ELSE [maps EXCEPT !.changed_items =
                 MapInsert(@, q,
                     [q |-> q, timestamp |-> result.rc_timestamp,
                      new |-> result.rc_this_oldid, old |-> result.rc_last_oldid])]

\* The body of the `for result in results` loop for one feed row.  maps holds
\* the two HashMaps keyed by title.
FoldStep(maps, result) ==
    LET q         == result.rc_title
        timestamp == result.rc_timestamp
    IN  IF result.rc_new
        THEN [maps EXCEPT !.new_items =
                 MapInsert(@, q, [q |-> q, timestamp |-> timestamp])]
        ELSE
          LET old == result.rc_last_oldid
              new == result.rc_this_oldid
          IN  IF q \in DOMAIN maps.changed_items
              THEN LET ci == maps.changed_items[q]
                   IN  IF ci.new < new
                       THEN [maps EXCEPT !.changed_items[q].new = new]
                       ELSE maps
              ELSE [maps EXCEPT !.changed_items =
                       MapInsert(@, q,
                           [q |-> q, timestamp |-> timestamp, new |-> new, old |-> old])]

\* The loop over results[i..].
RECURSIVE FoldResults(_, _, _)
FoldResults(results, i, maps) ==
    IF i > Len(results) THEN maps
    ELSE FoldResults(results, i + 1, FoldStep(maps, results[i]))

\* HashMap::into_values().collect(): the values in an unspecified order.
IntoValues(m) == {[i \in 1..Cardinality(DOMAIN m) |-> m[p[i]]] : p \in Perms(DOMAIN m)}

\* RecentChangesResults::new: the set of results it can return (one per
\* iteration order of the two hash maps).
RecentChangesResults_new(results) ==
    LET maps == FoldResults(results, 1, [new_items |-> EmptyMap, changed_items |-> EmptyMap])
    IN  {[new_items |-> ni, changed_items |-> ci] :
            ni \in IntoValues(maps.new_items), ci \in IntoValues(maps.changed_items)}

\* RecentChangesResults::get_last_rc_timetamp
get_last_rc_timetamp(r, oldest) ==
    IF r.changed_items = <<>> THEN oldest
    ELSE StrMax({r.changed_items[i].timestamp : i \in DOMAIN r.changed_items})

NoResults == [new_items |-> <<>>, changed_items |-> <<>>]

---------------------------------------------------------------------------
(* serde_json::Value.  A value is a record with one field that names its   *)
(* kind; an object holds a function from its keys to values.               *)

JNull     == [null |-> TRUE]
JStr(s)   == [str |-> s]
JNum(n)   == [num |-> n]
JArr(a)   == [arr |-> a]
JObj(f)   == [obj |-> f]

IsStr(v) == DOMAIN v = {"str"}
IsArr(v) == DOMAIN v = {"arr"}
IsObj(v) == DOMAIN v = {"obj"}

\* Value::get(key) -> Option<&Value>
Get(v, key) == IF IsObj(v) /\ key \in DOMAIN v.obj THEN <<v.obj[key]>> ELSE <<>>

\* Index: value[key], Null when v is no object or has no such key
Index(v, key) == IF IsObj(v) /\ key \in DOMAIN v.obj THEN v.obj[key] ELSE JNull

\* Value::as_str -> Option<&str>
as_str(v) == IF IsStr(v) THEN <<v.str>> ELSE <<>>

\* Map keys in iteration order (serde_json's Map is a BTreeMap: byte order of
\* the keys).  KeyOrder lists the keys of the model in that order.
KeyOrder == <<"P1", "P2", "de", "dewiki", "en", "enwiki">>

SortedKeys(m) == SelectSeq(KeyOrder, LAMBDA k : k \in DOMAIN m)

RECURSIVE Flatten(_)
Flatten(ss) == IF ss = <<>> THEN <<>> ELSE Head(ss) \o Flatten(Tail(ss))

\* RevisionCompare::json_object
json_object(j, key) ==
    LET o == Get(j, key)
    IN  IF o = <<>> THEN EmptyMap
        ELSE IF IsObj(o[1]) THEN o[1].obj ELSE EmptyMap

---------------------------------------------------------------------------
(* change.rs: Change *)

Change(self, subject, change_type) ==
    [item_id |-> self.item_id, revision_id |-> self.revision_id,
     subject |-> subject, change_type |-> change_type,
     language |-> "", text |-> "", site |-> "", title |-> "",
     property |-> "", id |-> ""]

TextChange(self, subject, change_type, language, text) ==
    [Change(self, subject, change_type) EXCEPT !.language = language, !.text = text]

SiteChange(self, change_type, site, title) ==
    [Change(self, "sitelinks", change_type) EXCEPT !.site = site, !.title = title]

ClaimChange(self, change_type, property, id) ==
    [Change(self, "claims", change_type) EXCEPT !.property = property, !.id = id]

---------------------------------------------------------------------------
(* Revision diff engine: labels, descriptions, sitelinks *)

\* One pushed record before it is dressed as a Change: the change type, the
\* map key (language or site) and the text (label or title).
Entry(change_type, key, text) == [change_type |-> change_type, key |-> key, text |-> text]

\* OldEntryStep without the comparison of the two texts.
OldEntryStep_AlwaysChanged(key, entry, new, field) ==
    LET label == as_str(Index(entry, field))
    IN  IF label = <<>> THEN <<>>
        ELSE IF key \in DOMAIN new
             THEN LET new_label == as_str(Index(new[key], field))
                  IN  IF new_label = <<>> THEN <<>>
                      ELSE << Entry("changed", key, new_label[1]) >>
             ELSE << Entry("removed", key, label[1]) >>

\* Body of the first loop of compare_labels_descriptions / compare_sitelinks
\* for one entry of old; field is "value" resp. "title".
OldEntryStep(key, entry, new, field) ==
    LET label == as_str(Index(entry, field))
    IN  IF label = <<>> THEN <<>>
        ELSE IF key \in DOMAIN new
             THEN LET new_label == as_str(Index(new[key], field))
                  IN  IF new_label = <<>> THEN <<>>
                      ELSE IF label[1] # new_label[1]
                           THEN << Entry("changed", key, new_label[1]) >>
                           ELSE <<>>
             ELSE << Entry("removed", key, label[1]) >>

\* NewEntryStep with a slip: the entry is reported as added without looking
\* whether old has the key.
NewEntryStep_NoLookup(key, entry, old, field) ==
    LET label == as_str(Index(entry, field))
    IN  IF label = <<>> THEN <<>> ELSE << Entry("added", key, label[1]) >>

\* Body of the second loop, for one entry of new.
NewEntryStep(key, entry, old, field) ==
    IF key \notin DOMAIN old
    THEN LET label == as_str(Index(entry, field))
         IN  IF label = <<>> THEN <<>> ELSE << Entry("added", key, label[1]) >>
    ELSE <<>>

\* The two loops over old.iter() and new.iter().
CompareKeyed(old, new, field) ==
    LET ok == SortedKeys(old)
        nk == SortedKeys(new)
    IN  Flatten([i \in 1..Len(ok) |-> OldEntryStep(ok[i], old[ok[i]], new, field)])
        \o
        Flatten([i \in 1..Len(nk) |-> NewEntryStep(nk[i], new[nk[i]], old, field)])

\* RevisionCompare::compare_labels_descriptions; key is "labels" or "descriptions".
compare_labels_descriptions(self, old_doc, new_doc, key) ==
    LET pushed == CompareKeyed(json_object(old_doc, key), json_object(new_doc, key), "value")
    IN  [i \in DOMAIN pushed |->
            TextChange(self, key, pushed[i].change_type, pushed[i].key, pushed[i].text)]

compare_labels(self, old_doc, new_doc) ==
    compare_labels_descriptions(self, old_doc, new_doc, "labels")

compare_descriptions(self, old_doc, new_doc) ==
    compare_labels_descriptions(self, old_doc, new_doc, "descriptions")

\* RevisionCompare::compare_sitelinks
compare_sitelinks(self, old_doc, new_doc) ==
    LET pushed == CompareKeyed(json_object(old_doc, "sitelinks"),
                               json_object(new_doc, "sitelinks"), "title")
    IN  [i \in DOMAIN pushed |->
            SiteChange(self, pushed[i].change_type, pushed[i].key, pushed[i].text)]

---------------------------------------------------------------------------
(* Revision diff engine: aliases *)

\* RevisionCompare::extract_aliases_from_map
extract_aliases_from_map(aliases, language) ==
    LET a == IF language \in DOMAIN aliases THEN aliases[language] ELSE JArr(<<>>)
    IN  IF ~IsArr(a) THEN <<>>
        ELSE Flatten([i \in 1..Len(a.arr) |-> as_str(Index(a.arr[i], "value"))])

\* compare_aliases_in_language without the membership tests: every alias of
\* a changed list is reported.
compare_aliases_in_language_NoContains(self, language, old_aliases, new_aliases) ==
    IF old_aliases = new_aliases THEN <<>>
    ELSE
      [i \in 1..Len(old_aliases) |->
          TextChange(self, "aliases", "removed", language, old_aliases[i])]
      \o
      [i \in 1..Len(new_aliases) |->
          TextChange(self, "aliases", "added", language, new_aliases[i])]

\* RevisionCompare::compare_aliases_in_language
compare_aliases_in_language(self, language, old_aliases, new_aliases) ==
    IF old_aliases = new_aliases THEN <<>>
    ELSE
      Flatten([i \in 1..Len(old_aliases) |->
          IF old_aliases[i] \notin Range(new_aliases)
          THEN << TextChange(self, "aliases", "removed", language, old_aliases[i]) >>
          ELSE <<>>])
      \o
      Flatten([i \in 1..Len(new_aliases) |->
          IF new_aliases[i] \notin Range(old_aliases)
          THEN << TextChange(self, "aliases", "added", language, new_aliases[i]) >>
          ELSE <<>>])

\* RevisionCompare::compare_aliases: the languages of old and new, sorted and
\* deduplicated.
compare_aliases(self, old_doc, new_doc) ==
    LET old == json_object(old_doc, "aliases")
        new == json_object(new_doc, "aliases")
        all_languages == SelectSeq(KeyOrder, LAMBDA k : k \in DOMAIN old \cup DOMAIN new)
    IN  Flatten([i \in 1..Len(all_languages) |->
            compare_aliases_in_language(self, all_languages[i],
                extract_aliases_from_map(old, all_languages[i]),
                extract_aliases_from_map(new, all_languages[i]))])

---------------------------------------------------------------------------
(* Revision diff engine: claims *)

\* prop_claims.as_array().unwrap_or(&vec![])
ArrayOrEmpty(v) == IF IsArr(v) THEN v.arr ELSE <<>>

\* The claims of a claims map with their property, in iteration order:
\* properties in key order, each property's array in array order.
ClaimsInOrder(claims) ==
    LET ps == SortedKeys(claims)
    IN  Flatten([i \in 1..Len(ps) |->
            LET a == ArrayOrEmpty(claims[ps[i]])
            IN  [k \in 1..Len(a) |-> [property |-> ps[i], claim |-> a[k]]]])

\* claim.get("id").unwrap().as_str().unwrap(): panics without a string id.
claim_id_of(claim) ==
    LET g == Get(claim, "id")
    IN  IF g = <<>> THEN Panic
        ELSE IF as_str(g[1]) = <<>> THEN Panic
        ELSE Ok(as_str(g[1])[1])

FirstOf(S) == CHOOSE m \in S : \A x \in S : m <= x

\* RevisionCompare::get_claim_by_id: the first claim with that id, scanning
\* every property; the scan panics at a claim without a string id.
get_claim_by_id(claim_id, claims) ==
    LET all  == ClaimsInOrder(claims)
        hits == {i \in DOMAIN all :
                    claim_id_of(all[i].claim).kind = "panic"
                    \/ claim_id_of(all[i].claim).val = claim_id}
    IN  IF hits = {} THEN Ok(<<>>)
        ELSE IF claim_id_of(all[FirstOf(hits)].claim).kind = "panic" THEN Panic
        ELSE Ok(<< all[FirstOf(hits)].claim >>)

\* OldClaimStep with a slip: the ids are compared, not the claims, so a
\* claim found under its id never counts as changed.
OldClaimStep_CompareIds(self, property, claim, new_claims) ==
    LET claim_id == claim_id_of(claim)
    IN  IF claim_id.kind = "panic" THEN Panic
        ELSE
          LET new_claim == get_claim_by_id(claim_id.val, new_claims)
          IN  IF new_claim.kind = "panic" THEN Panic
              ELSE IF new_claim.val = <<>>
                   THEN Ok(<< ClaimChange(self, "removed", property, claim_id.val) >>)
              ELSE IF claim_id # claim_id_of(new_claim.val[1])
                   THEN Ok(<< ClaimChange(self, "changed", property, claim_id.val) >>)
              ELSE Ok(<<>>)

\* Body of the first loop of compare_statements for one claim of old.
OldClaimStep(self, property, claim, new_claims) ==
    LET claim_id == claim_id_of(claim)
    IN  IF claim_id.kind = "panic" THEN Panic
        ELSE
          LET new_claim == get_claim_by_id(claim_id.val, new_claims)
          IN  IF new_claim.kind = "panic" THEN Panic
              ELSE IF new_claim.val = <<>>
                   THEN Ok(<< ClaimChange(self, "removed", property, claim_id.val) >>)
              ELSE IF claim # new_claim.val[1]
                   THEN Ok(<< ClaimChange(self, "changed", property, claim_id.val) >>)
              ELSE Ok(<<>>)

\* Body of the second loop, for one claim of new.
NewClaimStep(self, property, claim, old_claims) ==
    LET claim_id == claim_id_of(claim)
    IN  IF claim_id.kind = "panic" THEN Panic
        ELSE
          LET old_claim == get_claim_by_id(claim_id.val, old_claims)
          IN  IF old_claim.kind = "panic" THEN Panic
              ELSE IF old_claim.val = <<>>
                   THEN Ok(<< ClaimChange(self, "added", property, claim_id.val) >>)
              ELSE Ok(<<>>)

\* A sequence of step results: a panic in any step is a panic of the whole
\* (no step depends on the records pushed before it).
Collect(steps) ==
    IF \E i \in DOMAIN steps : steps[i].kind = "panic" THEN Panic
    ELSE Ok(Flatten([i \in DOMAIN steps |-> steps[i].val]))

\* RevisionCompare::compare_statements
compare_statements(self, old_doc, new_doc) ==
    LET old_claims == json_object(old_doc, "claims")
        new_claims == json_object(new_doc, "claims")
        olds == ClaimsInOrder(old_claims)
        news == ClaimsInOrder(new_claims)
    IN  Collect(
          [i \in 1..Len(olds) |->
              OldClaimStep(self, olds[i].property, olds[i].claim, new_claims)]
          \o
          [i \in 1..Len(news) |->
              NewClaimStep(self, news[i].property, news[i].claim, old_claims)])

\* RevisionCompare::compare_revisions
compare_revisions(self, old_doc, new_doc) ==
    LET claims == compare_statements(self, old_doc, new_doc)
    IN  IF claims.kind = "panic" THEN Panic
        ELSE Ok(compare_labels(self, old_doc, new_doc)
                \o compare_descriptions(self, old_doc, new_doc)
                \o compare_aliases(self, old_doc, new_doc)
                \o claims.val
                \o compare_sitelinks(self, old_doc, new_doc))

---------------------------------------------------------------------------
(* The state of everything outside the function under analysis *)

MetaKeys == {"timestamp", "timestamp_redirect", "timestamp_deletion"}

\* A refresh future that is not running.
NoFuture ==
    [pc |-> "done", oldest |-> <<>>, results |-> <<>>, updates |-> <<>>,
     new_ts |-> <<>>, res |-> "none"]

\* A pipeline without work units.
NoPool == [queued |-> 0, in_flight |-> 0, completed |-> 0]

\* The write path has not been run a first time.
NoPass == [statements |-> {}, labels |-> {}, failed |-> {}]

\* No cycle has run: empty tables, empty cache, no locals.
NoCycle ==
    /\ meta = [k \in MetaKeys |-> <<>>]
    /\ texts = <<>> /\ statements = {} /\ labels = {}
    /\ creations = EmptyMap /\ deletions = EmptyMap /\ redirects = {}
    /\ text_cache = EmptyMap /\ max_recent_changes = 0
    /\ rc_oldest = <<>> /\ feed = <<>>
    /\ queue = <<>> /\ in_flight = {} /\ completed = <<>> /\ changes = <<>>
    /\ del = NoFuture /\ red = NoFuture
    /\ run_result = Ok(0) /\ cycles = 0
    /\ start_meta = meta /\ failures = {}
    /\ command = "" /\ hung = {}
    /\ pass = 0 /\ first_pass = NoPass

\* No function is under analysis on its own.
NoUnit ==
    /\ rc_twice = [new_items |-> <<>>, changed_items |-> <<>>]
    /\ fallback = <<>> /\ last_ts = <<>>
    /\ codec_in = <<>> /\ codec_out = Ok(0)
    /\ calls = <<>>
    /\ task = [q |-> <<>>, old |-> 0, new |-> 0]
    /\ reply = Err /\ task_out = Ok(<<>>)

---------------------------------------------------------------------------
(* Inputs of the aggregator *)

MaxEvents == 3

Q1 == <<"Q", "1">>
Q2 == <<"Q", "2">>

T0 == <<"2","0","2","4","0","1","0","1","0","0","0","0","0","0">>
T1 == <<"2","0","2","4","0","1","0","1","0","0","0","1","0","0">>
T2 == <<"2","0","2","4","0","1","0","1","0","0","0","2","0","0">>

RecentChanges(ts, title, isnew, this, last) ==
    [rc_timestamp |-> ts, rc_title |-> title, rc_new |-> isnew,
     rc_this_oldid |-> this, rc_last_oldid |-> last]

\* Feed rows the aggregator is tried on: creations and edits of two items.
AggEvents ==
    {RecentChanges(ts, q, TRUE, 1, 0) : ts \in {T1, T2}, q \in {Q1, Q2}}
    \cup
    {RecentChanges(x[1], x[2], FALSE, x[3], x[4]) :
        x \in {T1, T2} \X {Q1, Q2} \X {101, 105} \X {100, 101}}

\* The end-to-end scenario of the specification.
ScenarioEvents ==
    << RecentChanges(T0, Q1, TRUE, 1, 0),
       RecentChanges(T1, Q2, FALSE, 101, 100),
       RecentChanges(T2, Q2, FALSE, 105, 100) >>

\* The values get_last_rc_timetamp is given as oldest.
Fallbacks == {T0, T2}

AggInit ==
    /\ pc = "agg_input"
    /\ events \in BoundedSeq(AggEvents, MaxEvents) \cup {ScenarioEvents}
    /\ rc = NoResults
    /\ rev_old = JNull /\ rev_new = JNull /\ diff = Ok(<<>>)
    /\ NoCycle /\ pool = NoPool
    /\ rc_twice = NoResults
    /\ fallback \in Fallbacks /\ last_ts = <<>>
    /\ codec_in = <<>> /\ codec_out = Ok(0)
    /\ calls = <<>>
    /\ task = [q |-> <<>>, old |-> 0, new |-> 0]
    /\ reply = Err /\ task_out = Ok(<<>>)

\* let rc = RecentChangesResults::new(&results);
Aggregate ==
    /\ pc = "agg_input"
    /\ rc' \in RecentChangesResults_new(events)
    /\ pc' = "agg_done"
    /\ UNCHANGED <<events, diffVars, storeVars, wdrcVars, cycleVars, pool, mainVars,
                   unitVars>>

\* RecentChangesResults::new on the batch followed by itself.
AggregateTwice ==
    /\ pc = "agg_done"
    /\ rc_twice' \in RecentChangesResults_new(events \o events)
    /\ pc' = "agg_twice"
    /\ UNCHANGED <<aggVars, diffVars, storeVars, wdrcVars, cycleVars, pool, mainVars, fallback,
                   last_ts, codec_in, codec_out, calls, task, reply, task_out>>

\* rc.get_last_rc_timetamp(oldest)
LastTimestamp ==
    /\ pc = "agg_twice"
    /\ last_ts' = get_last_rc_timetamp(rc, fallback)
    /\ pc' = "agg_last"
    /\ UNCHANGED <<aggVars, diffVars, storeVars, wdrcVars, cycleVars, pool, mainVars, rc_twice,
                   fallback, codec_in, codec_out, calls, task, reply, task_out>>

AggNext == Aggregate \/ AggregateTwice \/ LastTimestamp

SpecAggregate == AggInit /\ [][AggNext]_vars

---------------------------------------------------------------------------
(* Inputs of the diff engine: revision documents, one family per section *)

MaxAliases == 2
MaxClaims  == 2

Absent == [absent |-> TRUE]

\* The map that holds choice[k] for the keys whose choice is not Absent.
SectionOf(choice) == [k \in {x \in DOMAIN choice : choice[x] # Absent} |-> choice[k]]

DocWith(section, value) == JObj([k \in {section} |-> value])

EmptyDoc == JObj(EmptyMap)

\* labels / descriptions: per language absent, "old", "new", or a value that
\* is no string.
LabelChoices ==
    {Absent, JObj([value |-> JStr("old")]), JObj([value |-> JStr("new")]),
     JObj([value |-> JNum(1)])}

LabelDocs(key) ==
    {DocWith(key, JObj(SectionOf(c))) : c \in [{"en", "de"} -> LabelChoices]}
    \cup {DocWith(key, JStr("x"))}

\* sitelinks: per site absent, a title, or an entry without a string title.
SitelinkChoices ==
    {Absent, JObj([title |-> JStr("old")]), JObj([title |-> JStr("new")]),
     JObj([badges |-> JArr(<<>>)])}

SitelinkDocs ==
    {DocWith("sitelinks", JObj(SectionOf(c))) : c \in [{"enwiki", "dewiki"} -> SitelinkChoices]}
    \cup {DocWith("sitelinks", JNull)}

\* aliases: per language absent, a list of texts, no array, or a list with an
\* entry that has no string value.
AliasList(values) == JArr([i \in DOMAIN values |-> JObj([value |-> JStr(values[i])])])

AliasChoicesEn ==
    {Absent, JStr("x"), JArr(<< JObj([value |-> JNum(1)]), JObj([value |-> JStr("a")]) >>)}
    \cup {AliasList(t) : t \in BoundedSeq({"a", "b", "c"}, MaxAliases)}

AliasChoicesDe == {Absent, AliasList(<<"a">>), AliasList(<<"b">>)}

AliasDocs ==
    {DocWith("aliases", JObj(SectionOf([en |-> e, de |-> d]))) :
        e \in AliasChoicesEn, d \in AliasChoicesDe}

\* claims: a list of (property, claim id, value) in document order; the claims
\* of a property keep that order.
ClaimObj(id, value) ==
    JObj([id |-> JStr(id), mainsnak |-> JObj([datavalue |-> JStr(value)])])

ClaimsSection(triples) ==
    [p \in {triples[i][1] : i \in DOMAIN triples} |->
        LET mine == SelectSeq(triples, LAMBDA t : t[1] = p)
        IN  JArr([i \in DOMAIN mine |-> ClaimObj(mine[i][2], mine[i][3])])]

ClaimTriples == {"P1", "P2"} \X {"Q1$123", "Q1$124"} \X {"old", "new"}

ClaimDocs ==
    {DocWith("claims", JObj(ClaimsSection(t))) : t \in BoundedSeq(ClaimTriples, MaxClaims)}

\* claims that compare_statements cannot read: no id, an id that is no
\* string, a claim that is no object; and a property that holds no array.
MalformedClaimDocs ==
    {DocWith("claims", JObj([P1 |-> JArr(<< JObj([mainsnak |-> JStr("old")]) >>)])),
     DocWith("claims", JObj([P1 |-> JArr(<< JObj([id |-> JNum(1)]) >>)])),
     DocWith("claims", JObj([P1 |-> JArr(<< ClaimObj("Q1$123", "old"), JStr("x") >>)])),
     DocWith("claims", JObj([P1 |-> JStr("x")]))}

DocFamilies ==
    {LabelDocs("labels") \cup LabelDocs("descriptions") \cup {EmptyDoc, JNull},
     SitelinkDocs \cup {EmptyDoc},
     AliasDocs \cup {EmptyDoc},
     ClaimDocs \cup MalformedClaimDocs \cup {EmptyDoc}}

\* The RevisionCompare after run() has set item_id and revision_id.
DiffSelf == [item_id |-> 2, revision_id |-> 105]

DiffInit ==
    /\ pc = "diff_input"
    /\ \E family \in DocFamilies : rev_old \in family /\ rev_new \in family
    /\ diff = Ok(<<>>)
    /\ events = <<>> /\ rc = NoResults
    /\ NoCycle /\ pool = NoPool /\ NoUnit

\* let ret = self.compare_revisions(rev_old, rev_new);
CompareRevisions ==
    /\ pc = "diff_input"
    /\ diff' = compare_revisions(DiffSelf, rev_old, rev_new)
    /\ pc' = "diff_done"
    /\ UNCHANGED <<rev_old, rev_new, aggVars, storeVars, wdrcVars, cycleVars, pool, mainVars,
                   unitVars>>

DiffNext == CompareRevisions

SpecDiff == DiffInit /\ [][DiffNext]_vars

---------------------------------------------------------------------------
(* Timestamps and the query window *)

T3 == <<"2","0","2","4","0","1","0","1","0","2","0","0","0","0">>

\* The literal "20000101000000" of log_recent_changes and of the refreshes.
DefaultOldest == <<"2","0","0","0","0","1","0","1","0","0","0","0","0","0">>

\* The literal "99991231235900" of get_next_recent_changes_batch.
OpenUpperLimit == <<"9","9","9","9","1","2","3","1","2","3","5","9","0","0">>

\* The number spelled by the digits s[a..b].
Field(s, a, b) == DigitsValue(SubSeq(s, a, b))

DigitChar(d) == <<"0", "1", "2", "3", "4", "5", "6", "7", "8", "9">>[d + 1]

\* n in decimal, padded with zeros to w characters.
Digits(n, w) == [i \in 1..w |-> DigitChar((n \div (10 ^ (w - i))) % 10)]

DaysInMonth(y, m) ==
    IF m = 2
    THEN IF (y % 4 = 0 /\ y % 100 # 0) \/ y % 400 = 0 THEN 29 ELSE 28
    ELSE IF m \in {4, 6, 9, 11} THEN 30 ELSE 31

\* TimeStamp::from_str succeeds: fourteen digits that spell a date and a time.
IsTimeStamp(s) ==
    /\ Len(s) = 14
    /\ \A i \in 1..14 : IsDigit(s[i])
    /\ Field(s, 5, 6) \in 1..12
    /\ Field(s, 7, 8) \in 1..DaysInMonth(Field(s, 1, 4), Field(s, 5, 6))
    /\ Field(s, 9, 10) < 24 /\ Field(s, 11, 12) < 60 /\ Field(s, 13, 14) < 60

\* dt + Duration::from_secs(60 * 60), formatted by TimeStamp::datetime.
PlusHour(s) ==
    LET y == Field(s, 1, 4)
        m == Field(s, 5, 6)
        d == Field(s, 7, 8)
        h == Field(s, 9, 10)
        last_day == d = DaysInMonth(y, m)
    IN  IF h < 23
        THEN SubSeq(s, 1, 8) \o Digits(h + 1, 2) \o SubSeq(s, 11, 14)
        ELSE Digits(IF last_day /\ m = 12 THEN y + 1 ELSE y, 4)
             \o Digits(IF ~last_day THEN m ELSE IF m = 12 THEN 1 ELSE m + 1, 2)
             \o Digits(IF last_day THEN 1 ELSE d + 1, 2)
             \o <<"0", "0">> \o SubSeq(s, 11, 14)

\* let upper_limit = TimeStamp::from_str(oldest)...unwrap_or("99991231235900")
upper_limit(oldest) == IF IsTimeStamp(oldest) THEN PlusHour(oldest) ELSE OpenUpperLimit

---------------------------------------------------------------------------
(* The wdrc database: meta, texts *)

unwrap_or(option, default) == IF option = <<>> THEN default ELSE option[1]

\* WdRc::get_key_value on table m: result.first()
get_key_value(m, key) == m[key]

\* set_key_value whose UPDATE has no WHERE clause: every row is changed.
set_key_value_NoWhere(m, key, value) ==
    [k \in DOMAIN m |-> IF m[k] = <<>> THEN m[k] ELSE <<value>>]

\* WdRc::set_key_value on table m: an UPDATE, which changes the row of the
\* key and does nothing when the table has no such row.
set_key_value(m, key, value) ==
    IF m[key] = <<>> THEN m ELSE [m EXCEPT ![key] = <<value>>]

\* chache_texts_in_memory: `texts` collected into a HashMap (value -> id).
LoadTexts(table) ==
    [v \in Range(table) |-> CHOOSE i \in DOMAIN table :
                               table[i] = v /\ \A j \in DOMAIN table : table[j] = v => j <= i]

\* get_or_create_text_id that does not put the new row into the cache.
get_or_create_text_id_NoCacheInsert(st, text) ==
    LET warm == IF st.cache = EmptyMap
                THEN {[ok |-> FALSE, st |-> st],
                      [ok |-> TRUE, st |-> [st EXCEPT !.cache = LoadTexts(st.texts)]]}
                ELSE {[ok |-> TRUE, st |-> st]}
        Lookup(w) ==
            IF ~w.ok THEN {[st |-> w.st, id |-> <<>>, failed |-> "load"]}
            ELSE IF text \in DOMAIN w.st.cache
                 THEN {[st |-> w.st, id |-> <<w.st.cache[text]>>, failed |-> "none"]}
                 ELSE LET id == Len(w.st.texts) + 1
                      IN  {[st |-> w.st, id |-> <<>>, failed |-> "insert"],
                           [st |-> [cache |-> w.st.cache,
                                    texts |-> Append(w.st.texts, text)],
                            id |-> <<id>>, failed |-> "none"]}
    IN  UNION {Lookup(w) : w \in warm}

\* get_or_create_text_id whose cache keeps only the row it has just added.
get_or_create_text_id_Evicting(st, text) ==
    LET warm == IF st.cache = EmptyMap
                THEN {[ok |-> FALSE, st |-> st],
                      [ok |-> TRUE, st |-> [st EXCEPT !.cache = LoadTexts(st.texts)]]}
                ELSE {[ok |-> TRUE, st |-> st]}
        Lookup(w) ==
            IF ~w.ok THEN {[st |-> w.st, id |-> <<>>, failed |-> "load"]}
            ELSE IF text \in DOMAIN w.st.cache
                 THEN {[st |-> w.st, id |-> <<w.st.cache[text]>>, failed |-> "none"]}
                 ELSE LET id == Len(w.st.texts) + 1
                      IN  {[st |-> w.st, id |-> <<>>, failed |-> "insert"],
                           [st |-> [cache |-> MapInsert(EmptyMap, text, id),
                                    texts |-> Append(w.st.texts, text)],
                            id |-> <<id>>, failed |-> "none"]}
    IN  UNION {Lookup(w) : w \in warm}

\* get_or_create_text_id that puts the text into the cache before the INSERT
\* has returned: the entry stays when the INSERT fails.
get_or_create_text_id_CacheFirst(st, text) ==
    LET warm == IF st.cache = EmptyMap
                THEN {[ok |-> FALSE, st |-> st],
                      [ok |-> TRUE, st |-> [st EXCEPT !.cache = LoadTexts(st.texts)]]}
                ELSE {[ok |-> TRUE, st |-> st]}
        Lookup(w) ==
            IF ~w.ok THEN {[st |-> w.st, id |-> <<>>, failed |-> "load"]}
            ELSE IF text \in DOMAIN w.st.cache
                 THEN {[st |-> w.st, id |-> <<w.st.cache[text]>>, failed |-> "none"]}
                 ELSE LET id == Len(w.st.texts) + 1
                      IN  {[st |-> [w.st EXCEPT !.cache = MapInsert(w.st.cache, text, id)],
                            id |-> <<>>, failed |-> "insert"],
                           [st |-> [cache |-> MapInsert(w.st.cache, text, id),
                                    texts |-> Append(w.st.texts, text)],
                            id |-> <<id>>, failed |-> "none"]}
    IN  UNION {Lookup(w) : w \in warm}

\* WdRc::get_or_create_text_id in state st = [cache, texts]: the outcomes of
\* one call, each the state it leaves, the id it returns (none on Err) and
\* the database call that failed.  The load of the cache and the INSERT can
\* each fail; an INSERT without insert id ("No text row inserted") returns
\* Err from the same place and leaves the same state as a failed INSERT.
get_or_create_text_id(st, text) ==
    LET warm == IF st.cache = EmptyMap
                THEN {[ok |-> FALSE, st |-> st],
                      [ok |-> TRUE, st |-> [st EXCEPT !.cache = LoadTexts(st.texts)]]}
                ELSE {[ok |-> TRUE, st |-> st]}
        Lookup(w) ==
            IF ~w.ok THEN {[st |-> w.st, id |-> <<>>, failed |-> "load"]}
            ELSE IF text \in DOMAIN w.st.cache
                 THEN {[st |-> w.st, id |-> <<w.st.cache[text]>>, failed |-> "none"]}
                 ELSE LET id == Len(w.st.texts) + 1
                      IN  {[st |-> w.st, id |-> <<>>, failed |-> "insert"],
                           [st |-> [cache |-> MapInsert(w.st.cache, text, id),
                                    texts |-> Append(w.st.texts, text)],
                            id |-> <<id>>, failed |-> "none"]}
    IN  UNION {Lookup(w) : w \in warm}

---------------------------------------------------------------------------
(* Rows of the change tables *)

\* The characters of a property key of the documents.
Chars(key) == IF key = "P1" THEN <<"P", "1">> ELSE IF key = "P2" THEN <<"P", "2">> ELSE <<"P">>

\* Change::get_statement_log, which wdrc.rs calls and change.rs does not
\* hold: the row of `statements` for a claim change (item, revision,
\* property, timestamp, change_type), the timestamp being the one the
\* record carries; an error when the property has no numeric id, as in
\* Change::log_statement_change.
get_statement_log(c) ==
    LET property == make_id_numeric(Chars(c.property))
    IN  IF property.kind = "ok"
        THEN Ok([item |-> c.item_id, revision |-> c.revision_id,
                 property |-> property.val, timestamp |-> c.timestamp,
                 change_type |-> c.change_type])
        ELSE Err

\* Change::get_label_log, which wdrc.rs calls and change.rs does not hold:
\* the row of `labels` for a label, description, alias or sitelink change
\* (item, revision, type, timestamp, change_type, language), the timestamp
\* being the one the record carries, as in Change::log_label_change.
get_label_log(c, text_id) ==
    [item |-> c.item_id, revision |-> c.revision_id, type |-> c.subject,
     timestamp |-> c.timestamp, change_type |-> c.change_type, language |-> text_id]

\* values of log_statement_changes
StatementValues(cs) ==
    LET claims == SelectSeq(cs, LAMBDA c : c.subject = "claims")
        logs   == [i \in DOMAIN claims |-> get_statement_log(claims[i])]
        good   == SelectSeq(logs, LAMBDA l : l.kind = "ok")
    IN  [i \in DOMAIN good |-> good[i].val]

\* The loop `for ci in changes` of log_sitelinks_changes (field "site") and of
\* log_label_changes (field "language"): every way it can end, each with the
\* state of cache and `texts`, the parts it pushed and the database calls of
\* get_or_create_text_id that failed.  A change whose text gets no id is left
\* out.
RECURSIVE LabelParts(_, _, _, _)
LabelParts(cs, field, st, parts) ==
    IF cs = <<>> THEN {[st |-> st, parts |-> parts, failed |-> {}]}
    ELSE UNION {{[r EXCEPT !.failed = @ \cup ({o.failed} \ {"none"})] :
                    r \in LabelParts(Tail(cs), field, o.st,
                                     IF o.id = <<>> THEN parts
                                     ELSE Append(parts, get_label_log(Head(cs), o.id[1])))} :
                    o \in get_or_create_text_id(st, Head(cs)[field])}

SitelinkChanges(cs) == SelectSeq(cs, LAMBDA c : c.subject = "sitelinks")

LabelChanges(cs) ==
    SelectSeq(cs, LAMBDA c : c.subject \in {"labels", "descriptions", "aliases"})

---------------------------------------------------------------------------
(* Feed queries *)

\* The WHERE clause of get_next_recent_changes_batch without its lower bound.
InWindow_NoLowerBound(row, oldest, upper) == StrLe(row.rc_timestamp, upper)

\* `rc_timestamp`>=? AND rc_timestamp<=?
InWindow(row, oldest, upper) ==
    StrLe(oldest, row.rc_timestamp) /\ StrLe(row.rc_timestamp, upper)

\* RecentChanges::from_row decodes the title.
from_row(row) == make_id_numeric(row.rc_title)

\* get_next_recent_changes_batch that orders by rc_timestamp DESC: LIMIT keeps
\* the newest rows of the window.
get_next_recent_changes_batch_Newest(table, oldest, limit) ==
    LET upper == upper_limit(oldest)
        rows  == SelectSeq(table, LAMBDA r : InWindow(r, oldest, upper))
        batch == SubSeq(rows, IF Len(rows) < limit THEN 1 ELSE Len(rows) - limit + 1, Len(rows))
    IN  IF \E i \in DOMAIN batch : from_row(batch[i]).kind = "panic" THEN Panic
        ELSE Ok(SelectSeq(batch, LAMBDA r : from_row(r).kind = "ok"))

\* WdRc::get_next_recent_changes_batch on a table sorted by rc_timestamp,
\* rc_title, rc_id: the rows of the window, at most limit of them, those
\* with a title that decodes.
get_next_recent_changes_batch(table, oldest, limit) ==
    LET upper == upper_limit(oldest)
        rows  == SelectSeq(table, LAMBDA r : InWindow(r, oldest, upper))
        batch == SubSeq(rows, 1, IF Len(rows) < limit THEN Len(rows) ELSE limit)
    IN  IF \E i \in DOMAIN batch : from_row(batch[i]).kind = "panic" THEN Panic
        ELSE Ok(SelectSeq(batch, LAMBDA r : from_row(r).kind = "ok"))

\* WdRc::get_recent_deletions: the log rows with log_timestamp >= oldest.
get_recent_deletions(table, oldest) ==
    SelectSeq(table, LAMBDA r : StrLe(oldest, r.timestamp))

\* WdRc::get_recent_redirects: the rows with rc_timestamp >= oldest, grouped
\* by source and target, each group with its greatest timestamp.
get_recent_redirects(table, oldest) ==
    LET rows == SelectSeq(table, LAMBDA r : StrLe(oldest, r.timestamp))
        Same(i, j) == rows[i].source = rows[j].source /\ rows[i].target = rows[j].target
        firsts == SelectSeq([i \in DOMAIN rows |-> i],
                            LAMBDA i : \A j \in 1..(i - 1) : ~Same(i, j))
    IN  [k \in DOMAIN firsts |->
            [source |-> rows[firsts[k]].source, target |-> rows[firsts[k]].target,
             timestamp |-> StrMax({rows[j].timestamp : j \in {x \in DOMAIN rows : Same(firsts[k], x)}})]]

\* The loop of update_recent_deletions over rows[i..]; acc holds updates,
\* new_ts and whether an id made make_id_numeric panic.
RECURSIVE DeletionsLoop(_, _, _)
DeletionsLoop(rows, i, acc) ==
    IF i > Len(rows) \/ acc.panic THEN acc
    ELSE LET q == make_id_numeric(rows[i].q)
         IN  IF q.kind = "panic" THEN [acc EXCEPT !.panic = TRUE]
             ELSE IF q.kind = "err" THEN DeletionsLoop(rows, i + 1, acc)
             ELSE DeletionsLoop(rows, i + 1,
                     [acc EXCEPT
                        !.new_ts = IF StrLt(acc.new_ts, rows[i].timestamp)
                                   THEN rows[i].timestamp ELSE acc.new_ts,
                        !.updates = Append(acc.updates,
                                        [q |-> q.val, timestamp |-> rows[i].timestamp])])

\* The loop of update_recent_redirects over rows[i..].
RECURSIVE RedirectsLoop(_, _, _)
RedirectsLoop(rows, i, acc) ==
    IF i > Len(rows) \/ acc.panic THEN acc
    ELSE LET source == make_id_numeric(rows[i].source)
             target == make_id_numeric(rows[i].target)
         IN  IF source.kind = "panic" THEN [acc EXCEPT !.panic = TRUE]
             ELSE IF source.kind = "err" THEN RedirectsLoop(rows, i + 1, acc)
             ELSE IF target.kind = "panic" THEN [acc EXCEPT !.panic = TRUE]
             ELSE IF target.kind = "err" THEN RedirectsLoop(rows, i + 1, acc)
             ELSE RedirectsLoop(rows, i + 1,
                     [acc EXCEPT
                        !.new_ts = IF StrLt(acc.new_ts, rows[i].timestamp)
                                   THEN rows[i].timestamp ELSE acc.new_ts,
                        !.updates = Append(acc.updates,
                                        [source |-> source.val, target |-> target.val,
                                         timestamp |-> rows[i].timestamp])])

\* REPLACE INTO a table keyed by q.
ReplaceByQ(table, updates) ==
    [q \in DOMAIN table \cup {updates[i].q : i \in DOMAIN updates} |->
        IF \E i \in DOMAIN updates : updates[i].q = q
        THEN updates[CHOOSE i \in DOMAIN updates :
                        updates[i].q = q /\ \A j \in DOMAIN updates : updates[j].q = q => j <= i].timestamp
        ELSE table[q]]

\* DELETE FROM a table keyed by q WHERE q IN qs.
DeleteByQ(table, qs) == [q \in DOMAIN table \ qs |-> table[q]]

---------------------------------------------------------------------------
(* The world of the sync cycle: feeds, revisions, configuration *)

MAX_RECENT_CHANGES == 500
MAX_API_CONCURRENT == 50

MaxCycles == 2

Q0 == <<"Q", "0">>

\* What `recentchanges` (namespace 0) can hold when a cycle queries it,
\* sorted by rc_timestamp, rc_title.  Q0 is a title that does not decode.
Feeds ==
    { ScenarioEvents,
      << RecentChanges(T1, Q1, FALSE, 102, 100), RecentChanges(T1, Q2, FALSE, 105, 100) >>,
      << RecentChanges(T0, Q0, FALSE, 101, 100), RecentChanges(T0, Q1, FALSE, 101, 100),
         RecentChanges(T3, Q2, FALSE, 101, 100) >> }

\* What the join of `recentchanges` and `redirect` can hold.
RedirectFeeds ==
    { <<>>,
      << [source |-> Q1, target |-> Q2, timestamp |-> T0],
         [source |-> Q1, target |-> Q2, timestamp |-> T1],
         [source |-> Q0, target |-> Q2, timestamp |-> T2] >> }

\* What the deletion log can hold.  Q0 is a title that does not decode; the
\* title of the last table begins with a character of two bytes.
DeletionFeeds ==
    { <<>>,
      << [q |-> Q1, timestamp |-> T1], [q |-> Q0, timestamp |-> T2] >>,
      << [q |-> <<"é", "1">>, timestamp |-> T1], [q |-> Q2, timestamp |-> T2] >> }

\* The revisions of the items.  Revision 102 of Q1 has a claim without id.
Wiki(q, rev) ==
    CASE q = Q2 /\ rev = 100 ->
            JObj([labels |-> JObj([en |-> JObj([value |-> JStr("old")])])])
      [] q = Q2 /\ rev = 101 ->
            JObj([labels |-> JObj([en |-> JObj([value |-> JStr("new")])]),
                  sitelinks |-> JObj([enwiki |-> JObj([title |-> JStr("new")])])])
      [] q = Q2 /\ rev = 105 ->
            JObj([labels |-> JObj([en |-> JObj([value |-> JStr("new")])]),
                  sitelinks |-> JObj([enwiki |-> JObj([title |-> JStr("new")])]),
                  claims |-> JObj([P1 |-> JArr(<< ClaimObj("Q1$123", "new") >>)])])
      [] q = Q1 /\ rev = 100 -> EmptyDoc
      [] q = Q1 /\ rev = 101 ->
            JObj([aliases |-> JObj([en |-> AliasList(<<"a">>)]),
                  sitelinks |-> JObj([dewiki |-> JObj([title |-> JStr("new")])])])
      [] q = Q1 /\ rev = 102 ->
            DocWith("claims", JObj([P1 |-> JArr(<< JObj([mainsnak |-> JStr("new")]) >>)]))
      [] OTHER -> JNull

\* RevisionCompare::get_revisions_for_item for a work unit: the request
\* fails, or the response holds some of the two revisions.
Responses(ci) ==
    {Err} \cup {Ok([rev \in S |-> Wiki(ci.q, rev)]) : S \in SUBSET {ci.old, ci.new}}

\* run that keeps the old revision id for its records.
run_OldRevision(ci, fetched) ==
    LET item_id == make_id_numeric(ci.q)
    IN  IF item_id.kind # "ok" THEN item_id
        ELSE IF fetched.kind = "err" THEN Err
        ELSE IF ci.old \notin DOMAIN fetched.val THEN Err
        ELSE IF ci.new \notin DOMAIN fetched.val THEN Err
        ELSE compare_revisions([item_id |-> item_id.val, revision_id |-> ci.old],
                               fetched.val[ci.old], fetched.val[ci.new])

\* RevisionCompare::run for a work unit, given what the fetch returned.  (The
\* call in wdrc.rs passes the timestamp of the work unit as well; run in
\* revision_compare.rs takes none and Change has no field for it.)
run(ci, fetched) ==
    LET item_id == make_id_numeric(ci.q)
    IN  IF item_id.kind # "ok" THEN item_id
        ELSE IF fetched.kind = "err" THEN Err
        ELSE IF ci.old \notin DOMAIN fetched.val THEN Err
        ELSE IF ci.new \notin DOMAIN fetched.val THEN Err
        ELSE compare_revisions([item_id |-> item_id.val, revision_id |-> ci.new],
                               fetched.val[ci.old], fetched.val[ci.new])

\* The call `revision_compare.run(&ci.q, ci.old, ci.new, &ci.timestamp)` of
\* log_recent_changes: run with a fourth argument, which revision_compare.rs
\* does not hold.  Every record of the diff carries the timestamp it was
\* given, the event timestamp of the work unit.
run_task(ci, fetched) ==
    LET out == run(ci, fetched)
    IN  IF out.kind # "ok" THEN out
        ELSE Ok([i \in DOMAIN out.val |->
                    [k \in DOMAIN out.val[i] \cup {"timestamp"} |->
                        IF k = "timestamp" THEN ci.timestamp ELSE out.val[i][k]]])

\* collect() that gives up at the first failed task.
CollectChanges_UntilErr(done) ==
    LET bad == {i \in DOMAIN done : done[i].out.kind # "ok"}
        n   == IF bad = {} THEN Len(done) ELSE (CHOOSE i \in bad : \A j \in bad : i <= j) - 1
    IN  Flatten([i \in 1..n |-> done[i].out.val])

\* collect() that keeps the records of the last result only.
CollectChanges_LastOnly(done) ==
    IF done = <<>> \/ done[Len(done)].out.kind # "ok" THEN <<>>
    ELSE done[Len(done)].out.val

\* .into_iter().filter_map(|r| r.ok()).flatten().collect()
CollectChanges(done) ==
    LET oks == SelectSeq(done, LAMBDA r : r.out.kind = "ok")
    IN  Flatten([i \in DOMAIN oks |-> oks[i].out.val])

\* collect() that returns with the first result of the stream.
StreamEnded_FirstResult(waiting, running) == TRUE

\* stream.collect::<Vec<_>>().await: the stream ends, and collect returns,
\* when no future is waiting and none is in progress.
StreamEnded(waiting, running) == waiting = <<>> /\ running = {}

\* buffer_unordered without a limit.
CanStart_Unbounded(n) == TRUE

\* buffer_unordered(MAX_API_CONCURRENT) pulls the next future while fewer
\* than MAX_API_CONCURRENT are in progress.
CanStart(n) == n < MAX_API_CONCURRENT

---------------------------------------------------------------------------
(* The sync cycle: WdRc::run_once, called in a loop by main *)

Failed(at) == [kind |-> "err", val |-> at]

\* Table `texts` when the process starts.
StartTexts == <<"en">>

\* args[1] as main tells it apart: "bot", "run", anything else.
Commands == {"bot", "run", "help"}

\* main that leaves its loop when run_once returns an error.
CallsRunOnce_StopOnErr(cmd, n, res) ==
    \/ cmd = "bot" /\ res.kind = "ok"
    \/ cmd = "run" /\ n = 0

\* main, after n calls of run_once the last of which returned res: `loop`
\* calls it again whatever it returned, "run" calls it once.
CallsRunOnce(cmd, n, res) ==
    \/ cmd = "bot"
    \/ cmd = "run" /\ n = 0

Init ==
    /\ pc = "idle"
    /\ events = <<>> /\ rc = NoResults
    /\ rev_old = JNull /\ rev_new = JNull /\ diff = Ok(<<>>)
    /\ meta \in {[k \in MetaKeys |-> v] : v \in {<<>>, <<T0>>}}
    /\ texts = StartTexts
    /\ statements = {} /\ labels = {}
    /\ creations = EmptyMap /\ deletions = EmptyMap /\ redirects = {}
    /\ text_cache = EmptyMap
    /\ max_recent_changes \in {1, MAX_RECENT_CHANGES}
    /\ rc_oldest = <<>> /\ feed = <<>>
    /\ queue = <<>> /\ in_flight = {} /\ completed = <<>> /\ changes = <<>>
    /\ del = NoFuture /\ red = NoFuture
    /\ run_result = Ok(0) /\ cycles = 0
    /\ start_meta = meta /\ failures = {}
    /\ command \in Commands /\ hung = {}
    /\ pass = 0 /\ first_pass = NoPass
    /\ pool = NoPool /\ NoUnit

\* run_once returns.
Return(res) == pc' = "idle" /\ run_result' = res

\* `.await?` on a call that failed, ignored: the function goes on.
Propagate_Ignored(at, next) ==
    /\ failures' = failures \cup {at}
    /\ pc' = next
    /\ UNCHANGED run_result

\* `.await?` on a call that failed, in log_changes, log_recent_changes,
\* get_recent_changes, log_new_items and run_once: the error is returned.
Propagate(at, next) ==
    /\ failures' = failures \cup {at}
    /\ Return(Failed(at))

\* main calls run_once; its first statement creates the two futures.  When
\* main calls it no more (pc = "idle" and no call to make) main returns.
StartCycle ==
    /\ pc = "idle"
    /\ CallsRunOnce(command, cycles, run_result)
    /\ cycles < MaxCycles
    /\ pc' = "refresh"
    /\ cycles' = cycles + 1
    /\ start_meta' = meta
    /\ failures' = {}
    /\ del' = [NoFuture EXCEPT !.pc = "get_key_value"]
    /\ red' = [NoFuture EXCEPT !.pc = "get_key_value"]
    /\ rc_oldest' = <<>> /\ feed' = <<>> /\ events' = <<>> /\ rc' = NoResults
    /\ queue' = <<>> /\ in_flight' = {} /\ completed' = <<>> /\ changes' = <<>>
    /\ UNCHANGED <<run_result, diffVars, storeVars, wdrcVars, pool, mainVars, unitVars>>

\* A refresh future returns; its locals are gone.
FutureDone(res) == [NoFuture EXCEPT !.res = res]

\* update_recent_deletions: get_key_value("timestamp_deletion")
DelGetKeyValue ==
    /\ pc = "refresh" /\ del.pc = "get_key_value"
    /\ \/ del' = FutureDone("err")
       \/ del' = [del EXCEPT !.pc = "query",
                             !.oldest = unwrap_or(get_key_value(meta, "timestamp_deletion"),
                                                  DefaultOldest)]
    /\ UNCHANGED <<pc, aggVars, diffVars, storeVars, wdrcVars, rc_oldest, feed, queue,
                   in_flight, completed, changes, red, run_result, cycles, start_meta,
                   failures, pool, mainVars, unitVars>>

\* update_recent_deletions: get_recent_deletions and the loop over its rows
DelQuery ==
    /\ pc = "refresh" /\ del.pc = "query"
    /\ \/ del' = FutureDone("err") /\ UNCHANGED pc
       \/ \E table \in DeletionFeeds :
             LET rows == get_recent_deletions(table, del.oldest)
                 loop == DeletionsLoop(rows, 1, [updates |-> <<>>, new_ts |-> del.oldest,
                                                 panic |-> FALSE])
             IN  IF loop.panic THEN pc' = "panicked" /\ UNCHANGED del
                 ELSE /\ del' = IF loop.updates = <<>> THEN FutureDone("ok")
                                ELSE [del EXCEPT !.results = rows,
                                                 !.updates = loop.updates,
                                                 !.new_ts = loop.new_ts,
                                                 !.pc = "write"]
                      /\ UNCHANGED pc
    /\ UNCHANGED <<aggVars, diffVars, storeVars, wdrcVars, rc_oldest, feed, queue,
                   in_flight, completed, changes, red, run_result, cycles, start_meta,
                   failures, pool, mainVars, unitVars>>

\* update_recent_deletions: REPLACE INTO `deletions`
DelWrite ==
    /\ pc = "refresh" /\ del.pc = "write"
    /\ \/ del' = FutureDone("err") /\ UNCHANGED deletions
       \/ /\ deletions' = ReplaceByQ(deletions, del.updates)
          /\ del' = [del EXCEPT !.pc = "set_key_value"]
    /\ UNCHANGED <<pc, aggVars, diffVars, meta, texts, statements, labels, creations,
                   redirects, wdrcVars, rc_oldest, feed, queue, in_flight, completed,
                   changes, red, run_result, cycles, start_meta, failures, pool, mainVars,
                   unitVars>>

\* update_recent_deletions: set_key_value("timestamp_deletion", new_ts)
DelSetKeyValue ==
    /\ pc = "refresh" /\ del.pc = "set_key_value"
    /\ \/ del' = FutureDone("err") /\ UNCHANGED meta
       \/ /\ meta' = set_key_value(meta, "timestamp_deletion", del.new_ts)
          /\ del' = FutureDone("ok")
    /\ UNCHANGED <<pc, aggVars, diffVars, texts, statements, labels, creations, deletions,
                   redirects, wdrcVars, rc_oldest, feed, queue, in_flight, completed,
                   changes, red, run_result, cycles, start_meta, failures, pool, mainVars,
                   unitVars>>

\* update_recent_redirects: get_key_value("timestamp_redirect")
RedGetKeyValue ==
    /\ pc = "refresh" /\ red.pc = "get_key_value"
    /\ \/ red' = FutureDone("err")
       \/ red' = [red EXCEPT !.pc = "query",
                             !.oldest = unwrap_or(get_key_value(meta, "timestamp_redirect"),
                                                  DefaultOldest)]
    /\ UNCHANGED <<pc, aggVars, diffVars, storeVars, wdrcVars, rc_oldest, feed, queue,
                   in_flight, completed, changes, del, run_result, cycles, start_meta,
                   failures, pool, mainVars, unitVars>>

\* update_recent_redirects: get_recent_redirects and the loop over its rows
RedQuery ==
    /\ pc = "refresh" /\ red.pc = "query"
    /\ \/ red' = FutureDone("err") /\ UNCHANGED pc
       \/ \E table \in RedirectFeeds :
             LET rows == get_recent_redirects(table, red.oldest)
                 loop == RedirectsLoop(rows, 1, [updates |-> <<>>, new_ts |-> red.oldest,
                                                 panic |-> FALSE])
             IN  IF loop.panic THEN pc' = "panicked" /\ UNCHANGED red
                 ELSE /\ red' = IF loop.updates = <<>> THEN FutureDone("ok")
                                ELSE [red EXCEPT !.results = rows,
                                                 !.updates = loop.updates,
                                                 !.new_ts = loop.new_ts,
                                                 !.pc = "write"]
                      /\ UNCHANGED pc
    /\ UNCHANGED <<aggVars, diffVars, storeVars, wdrcVars, rc_oldest, feed, queue,
                   in_flight, completed, changes, del, run_result, cycles, start_meta,
                   failures, pool, mainVars, unitVars>>

\* update_recent_redirects: REPLACE INTO `redirects`
RedWrite ==
    /\ pc = "refresh" /\ red.pc = "write"
    /\ \/ red' = FutureDone("err") /\ UNCHANGED redirects
       \/ /\ redirects' = redirects \cup Range(red.updates)
          /\ red' = [red EXCEPT !.pc = "set_key_value"]
    /\ UNCHANGED <<pc, aggVars, diffVars, meta, texts, statements, labels, creations,
                   deletions, wdrcVars, rc_oldest, feed, queue, in_flight, completed,
                   changes, del, run_result, cycles, start_meta, failures, pool, mainVars,
                   unitVars>>

\* update_recent_redirects: set_key_value("timestamp_redirect", new_ts)
RedSetKeyValue ==
    /\ pc = "refresh" /\ red.pc = "set_key_value"
    /\ \/ red' = FutureDone("err") /\ UNCHANGED meta
       \/ /\ meta' = set_key_value(meta, "timestamp_redirect", red.new_ts)
          /\ red' = FutureDone("ok")
    /\ UNCHANGED <<pc, aggVars, diffVars, texts, statements, labels, creations, deletions,
                   redirects, wdrcVars, rc_oldest, feed, queue, in_flight, completed,
                   changes, del, run_result, cycles, start_meta, failures, pool, mainVars,
                   unitVars>>

\* join! whose results are looked at: an error of a refresh is returned.
Joined_Checked(res1, res2) == IF res1 = "err" \/ res2 = "err" THEN "err" ELSE "ok"

\* let _ = join!(future1, future2); // Ignore errors
\* Nothing of the two results is kept.
Joined(res1, res2) == "ok"

\* join! is over; get_recent_changes: get_key_value("timestamp")
ReadWatermark ==
    /\ pc = "refresh" /\ del.pc = "done" /\ red.pc = "done"
    /\ IF Joined(del.res, red.res) = "err"
       THEN /\ Return(Failed("join"))
            /\ UNCHANGED <<rc_oldest, failures>>
       ELSE \/ /\ Propagate("get_key_value", "get_next_recent_changes_batch")
               /\ UNCHANGED rc_oldest
            \/ /\ rc_oldest' = unwrap_or(get_key_value(meta, "timestamp"), <<>>)
               /\ pc' = "get_next_recent_changes_batch"
               /\ UNCHANGED <<run_result, failures>>
    /\ UNCHANGED <<aggVars, diffVars, storeVars, wdrcVars, feed, queue, in_flight,
                   completed, changes, del, red, cycles, start_meta, pool, mainVars,
                   unitVars>>

\* run_once that takes the early return of log_recent_changes for its own.
log_recent_changes_begin_Returns(changed_items) ==
    IF changed_items = <<>> THEN "idle" ELSE "pipeline"

\* Where run_once goes on when it calls log_recent_changes: without changed
\* items log_recent_changes returns Ok at once and log_new_items is next,
\* otherwise the stream of futures is built and polled.
log_recent_changes_begin(changed_items) ==
    IF changed_items = <<>> THEN "log_new_items" ELSE "pipeline"

\* get_recent_changes: get_next_recent_changes_batch, RecentChangesResults::new;
\* then log_recent_changes up to the stream of futures, or its early return.
QueryFeed ==
    /\ pc = "get_next_recent_changes_batch"
    /\ \/ /\ Propagate("recentchanges", "pipeline")
          /\ UNCHANGED <<feed, events, rc, queue>>
       \/ /\ \E table \in Feeds :
                LET batch == get_next_recent_changes_batch(table, rc_oldest, max_recent_changes)
                IN  /\ feed' = table
                    /\ IF batch.kind = "panic"
                       THEN /\ pc' = "panicked"
                            /\ UNCHANGED <<events, rc, queue>>
                       ELSE /\ events' = batch.val
                            /\ rc' \in RecentChangesResults_new(batch.val)
                            /\ queue' = rc'.changed_items
                            /\ pc' = log_recent_changes_begin(rc'.changed_items)
          /\ UNCHANGED <<run_result, failures>>
    /\ UNCHANGED <<diffVars, storeVars, wdrcVars, rc_oldest, in_flight, completed,
                   changes, del, red, cycles, start_meta, pool, mainVars, unitVars>>

\* buffer_unordered pulls the next future and starts it.
StartTask ==
    /\ pc = "pipeline"
    /\ queue # <<>>
    /\ CanStart(Cardinality(in_flight))
    /\ in_flight' = in_flight \cup {Head(queue)}
    /\ queue' = Tail(queue)
    /\ UNCHANGED <<pc, aggVars, diffVars, storeVars, wdrcVars, rc_oldest, feed, completed,
                   changes, del, red, run_result, cycles, start_meta, failures, pool, mainVars,
                   unitVars>>

\* A future in progress completes, unless its fetch never returns; the stream
\* yields its result.  With the last result the stream ends and the results
\* are collected.
FinishTask ==
    /\ pc = "pipeline"
    /\ ~(queue # <<>> /\ CanStart(Cardinality(in_flight)))
    /\ \E ci \in in_flight \ hung : \E fetched \in Responses(ci) :
          LET out == run_task(ci, fetched)
          IN  IF out.kind = "panic"
              THEN /\ pc' = "panicked"
                   /\ UNCHANGED <<in_flight, completed, changes>>
              ELSE /\ in_flight' = in_flight \ {ci}
                   /\ completed' = Append(completed, [unit |-> ci, out |-> out])
                   /\ IF StreamEnded(queue, in_flight')
                      THEN /\ changes' = CollectChanges(completed')
                           /\ pc' = "log_statement_changes"
                      ELSE UNCHANGED <<changes, pc>>
    /\ UNCHANGED <<aggVars, diffVars, storeVars, wdrcVars, rc_oldest, feed, queue,
                   del, red, run_result, cycles, start_meta, failures, pool, mainVars,
                   unitVars>>

\* log_changes: log_statement_changes
LogStatementChanges ==
    /\ pc = "log_statement_changes"
    /\ LET values == StatementValues(changes)
       IN  \/ /\ values # <<>>
              /\ Propagate("statements", "log_sitelinks_changes")
              /\ UNCHANGED statements
           \/ /\ statements' = statements \cup Range(values)
              /\ pc' = "log_sitelinks_changes"
              /\ UNCHANGED <<run_result, failures>>
    /\ UNCHANGED <<aggVars, diffVars, meta, texts, labels, creations, deletions, redirects,
                   wdrcVars, rc_oldest, feed, queue, in_flight, completed, changes,
                   del, red, cycles, start_meta, pool, mainVars, unitVars>>

\* History: "texts" when an INSERT into `texts` failed in the loop.
InsertFailures(o) == IF "insert" \in o.failed THEN {"texts"} ELSE {}

\* History: the calls of get_or_create_text_id that failed in the loop, the
\* INSERT into `texts` and the SELECT that fills the cache.
TextFailures(o) ==
    InsertFailures(o) \cup (IF "load" \in o.failed THEN {"select_texts"} ELSE {})

\* log_changes: log_sitelinks_changes
LogSitelinksChanges ==
    /\ pc = "log_sitelinks_changes"
    /\ \E o \in LabelParts(SitelinkChanges(changes), "site",
                           [cache |-> text_cache, texts |-> texts], <<>>) :
          /\ text_cache' = o.st.cache
          /\ texts' = o.st.texts
          /\ \/ /\ o.parts # <<>>
                /\ failures' = failures \cup TextFailures(o) \cup {"sitelinks"}
                /\ Return(Failed("sitelinks"))
                /\ UNCHANGED labels
             \/ /\ labels' = labels \cup Range(o.parts)
                /\ pc' = "log_label_changes"
                /\ failures' = failures \cup TextFailures(o)
                /\ UNCHANGED run_result
    /\ UNCHANGED <<aggVars, diffVars, meta, statements, creations, deletions, redirects,
                   max_recent_changes, rc_oldest, feed, queue, in_flight, completed,
                   changes, del, red, cycles, start_meta, pool, mainVars, unitVars>>

\* log_changes: log_label_changes
LogLabelChanges ==
    /\ pc = "log_label_changes"
    /\ \E o \in LabelParts(LabelChanges(changes), "language",
                           [cache |-> text_cache, texts |-> texts], <<>>) :
          /\ text_cache' = o.st.cache
          /\ texts' = o.st.texts
          /\ \/ /\ o.parts # <<>>
                /\ failures' = failures \cup TextFailures(o) \cup {"labels"}
                /\ Return(Failed("labels"))
                /\ UNCHANGED labels
             \/ /\ labels' = labels \cup Range(o.parts)
                /\ pc' = "set_key_value"
                /\ failures' = failures \cup TextFailures(o)
                /\ UNCHANGED run_result
    /\ UNCHANGED <<aggVars, diffVars, meta, statements, creations, deletions, redirects,
                   max_recent_changes, rc_oldest, feed, queue, in_flight, completed,
                   changes, del, red, cycles, start_meta, pool, mainVars, unitVars>>

\* log_recent_changes: let _ = self.set_key_value("timestamp", &new_oldest)
SetWatermark ==
    /\ pc = "set_key_value"
    /\ \/ /\ failures' = failures \cup {"set_key_value"}
          /\ UNCHANGED meta
       \/ /\ meta' = set_key_value(meta, "timestamp", get_last_rc_timetamp(rc, DefaultOldest))
          /\ UNCHANGED failures
    /\ pc' = "log_new_items"
    /\ UNCHANGED <<aggVars, diffVars, texts, statements, labels, creations, deletions,
                   redirects, wdrcVars, rc_oldest, feed, queue, in_flight, completed,
                   changes, del, red, run_result, cycles, start_meta, pool, mainVars,
                   unitVars>>

\* log_new_items, and the return of run_once
LogNewItems ==
    /\ pc = "log_new_items"
    /\ LET ids == [i \in DOMAIN rc.new_items |-> make_id_numeric(rc.new_items[i].q)]
           updates == [i \in DOMAIN ids |->
                          [q |-> ids[i].val, timestamp |-> rc.new_items[i].timestamp]]
       IN  IF rc.new_items = <<>>
           THEN /\ Return(Ok(0))
                /\ UNCHANGED <<creations, deletions, failures>>
           ELSE IF \E i \in DOMAIN ids : ids[i].kind # "ok"
           THEN /\ IF ids[CHOOSE i \in DOMAIN ids : ids[i].kind # "ok"
                                   /\ \A j \in 1..(i - 1) : ids[j].kind = "ok"].kind = "panic"
                   THEN pc' = "panicked" /\ UNCHANGED run_result
                   ELSE Return(Failed("make_id_numeric"))
                /\ UNCHANGED <<creations, deletions, failures>>
           ELSE \/ /\ Propagate("creations", "log_new_items")
                   /\ UNCHANGED <<creations, deletions>>
                \/ /\ creations' = ReplaceByQ(creations, updates)
                   /\ \/ /\ Propagate("deletions", "log_new_items")
                         /\ UNCHANGED deletions
                      \/ /\ deletions' = DeleteByQ(deletions, {ids[i].val : i \in DOMAIN ids})
                         /\ Return(Ok(0))
                         /\ UNCHANGED failures
    /\ UNCHANGED <<aggVars, diffVars, meta, texts, statements, labels, redirects, wdrcVars,
                   rc_oldest, feed, queue, in_flight, completed, changes, del, red,
                   cycles, start_meta, pool, mainVars, unitVars>>

Next ==
    \/ StartCycle
    \/ DelGetKeyValue \/ DelQuery \/ DelWrite \/ DelSetKeyValue
    \/ RedGetKeyValue \/ RedQuery \/ RedWrite \/ RedSetKeyValue
    \/ ReadWatermark \/ QueryFeed
    \/ StartTask \/ FinishTask
    \/ LogStatementChanges \/ LogSitelinksChanges \/ LogLabelChanges
    \/ SetWatermark \/ LogNewItems

Spec == Init /\ [][Next]_vars

\* Every call that is awaited returns: a step of the cycle that can be taken
\* is taken.
FairSpec == Spec /\ WF_vars(Next)

\* The request of a future in progress gets no response, ever: reqwest is
\* used without a timeout (revision_compare.rs, get_revisions_for_item).
Hang ==
    /\ pc = "pipeline"
    /\ hung = {}
    /\ \E ci \in in_flight : hung' = {ci}
    /\ UNCHANGED <<pc, aggVars, diffVars, storeVars, wdrcVars, cycleVars, pool, command,
                   pass, first_pass, unitVars>>

HangNext == Next \/ Hang

\* The cycle with a fetch that may hang; every other awaited call returns.
SpecHang == Init /\ [][HangNext]_vars /\ WF_vars(Next)

---------------------------------------------------------------------------
(* The bounded stream of the pipeline with its work units counted *)

MaxUnits == 52

PoolInit ==
    /\ pc = "pool"
    /\ pool \in {[queued |-> n, in_flight |-> 0, completed |-> 0] : n \in 1..MaxUnits}
    /\ events = <<>> /\ rc = NoResults
    /\ rev_old = JNull /\ rev_new = JNull /\ diff = Ok(<<>>)
    /\ NoCycle /\ NoUnit

\* buffer_unordered pulls the next future and starts it.
PoolStart ==
    /\ pool.queued > 0
    /\ CanStart(pool.in_flight)
    /\ pool' = [pool EXCEPT !.queued = @ - 1, !.in_flight = @ + 1]
    /\ UNCHANGED <<pc, aggVars, diffVars, storeVars, wdrcVars, cycleVars, mainVars, unitVars>>

\* A future in progress completes, as Ok or as Err.
PoolFinish ==
    /\ pool.in_flight > 0
    /\ ~(pool.queued > 0 /\ CanStart(pool.in_flight))
    /\ pool' = [pool EXCEPT !.in_flight = @ - 1, !.completed = @ + 1]
    /\ UNCHANGED <<pc, aggVars, diffVars, storeVars, wdrcVars, cycleVars, mainVars, unitVars>>

PoolNext == PoolStart \/ PoolFinish

SpecPool == PoolInit /\ [][PoolNext]_vars

---------------------------------------------------------------------------
(* Text interning on its own: a process that calls get_or_create_text_id *)

MaxCalls == 3

\* Language and site codes handed to get_or_create_text_id.
InternTexts == {"en", "de", "enwiki"}

\* What table `texts` can hold when the process starts; its values need not
\* be unique.
TextTables == {<<>>, <<"en">>, <<"en", "de">>, <<"de", "en", "de">>}

InternInit ==
    /\ pc = "intern"
    /\ texts \in TextTables
    /\ text_cache = EmptyMap
    /\ calls = <<>>
    /\ events = <<>> /\ rc = NoResults
    /\ rev_old = JNull /\ rev_new = JNull /\ diff = Ok(<<>>)
    /\ meta = [k \in MetaKeys |-> <<>>]
    /\ statements = {} /\ labels = {}
    /\ creations = EmptyMap /\ deletions = EmptyMap /\ redirects = {}
    /\ max_recent_changes = 0
    /\ rc_oldest = <<>> /\ feed = <<>>
    /\ queue = <<>> /\ in_flight = {} /\ completed = <<>> /\ changes = <<>>
    /\ del = NoFuture /\ red = NoFuture
    /\ run_result = Ok(0) /\ cycles = 0
    /\ start_meta = meta /\ failures = {}
    /\ command = "" /\ hung = {} /\ pass = 0 /\ first_pass = NoPass
    /\ pool = NoPool
    /\ rc_twice = NoResults /\ fallback = <<>> /\ last_ts = <<>>
    /\ codec_in = <<>> /\ codec_out = Ok(0)
    /\ task = [q |-> <<>>, old |-> 0, new |-> 0]
    /\ reply = Err /\ task_out = Ok(<<>>)

\* self.get_or_create_text_id(text).await; the call is recorded with the id
\* it returned and the number of rows it added to `texts`.
Intern ==
    /\ pc = "intern"
    /\ Len(calls) < MaxCalls
    /\ \E text \in InternTexts :
          \E o \in get_or_create_text_id([cache |-> text_cache, texts |-> texts], text) :
             /\ text_cache' = o.st.cache
             /\ texts' = o.st.texts
             /\ calls' = Append(calls, [text |-> text, id |-> o.id,
                                        rows |-> Len(o.st.texts) - Len(texts)])
    /\ UNCHANGED <<pc, aggVars, diffVars, meta, statements, labels, creations, deletions,
                   redirects, max_recent_changes, cycleVars, pool, mainVars, rc_twice, fallback,
                   last_ts, codec_in, codec_out, task, reply, task_out>>

InternNext == Intern

SpecIntern == InternInit /\ [][InternNext]_vars

---------------------------------------------------------------------------
(* The identifier codec on its own *)

MaxIdLen == 3

\* Characters of the identifiers the codec is tried on.
IdChars == {"Q", "0", "1", "+", "é"}

CodecInit ==
    /\ pc = "codec_input"
    /\ codec_in \in BoundedSeq(IdChars, MaxIdLen)
    /\ codec_out = Ok(0)
    /\ events = <<>> /\ rc = NoResults
    /\ rev_old = JNull /\ rev_new = JNull /\ diff = Ok(<<>>)
    /\ NoCycle /\ pool = NoPool
    /\ rc_twice = NoResults /\ fallback = <<>> /\ last_ts = <<>>
    /\ calls = <<>>
    /\ task = [q |-> <<>>, old |-> 0, new |-> 0]
    /\ reply = Err /\ task_out = Ok(<<>>)

\* WdRc::make_id_numeric(id)
Decode ==
    /\ pc = "codec_input"
    /\ codec_out' = make_id_numeric(codec_in)
    /\ pc' = "codec_done"
    /\ UNCHANGED <<aggVars, diffVars, storeVars, wdrcVars, cycleVars, pool, mainVars, rc_twice,
                   fallback, last_ts, codec_in, calls, task, reply, task_out>>

CodecNext == Decode

SpecCodec == CodecInit /\ [][CodecNext]_vars

---------------------------------------------------------------------------
(* A fetch-diff task on its own: RevisionCompare::run on an API reply *)

MaxRevisions == 3

\* RevisionCompare::json_array
json_array(j, key) ==
    LET o == Get(j, key)
    IN  IF o = <<>> THEN <<>>
        ELSE IF IsArr(o[1]) THEN o[1].arr ELSE <<>>

\* Value::as_u64 -> Option<u64>
as_u64(v) == IF DOMAIN v = {"num"} THEN <<v.num>> ELSE <<>>

\* The content of a revision is a string; Text(doc) is the serialisation of
\* doc, Garbled a string that is not JSON.
Text(doc) == JStr([json |-> <<doc>>])
Garbled   == JStr([json |-> <<>>])

\* serde_json::from_str::<Value>(text)
from_str(text) == IF text.json = <<>> THEN Err ELSE Ok(text.json[1])

\* The body of the loop over the revisions that also keeps a revision whose
\* content does not parse, as Null.
RevisionStep_KeepUnparsed(ret, revision, rev_id_old, rev_id_new) ==
    LET rev_id == as_u64(Index(revision, "revid"))
    IN  IF rev_id = <<>> THEN ret
        ELSE IF rev_id[1] # rev_id_old /\ rev_id[1] # rev_id_new THEN ret
        ELSE LET text == as_str(Index(Index(Index(revision, "slots"), "main"), "*"))
             IN  IF text = <<>> THEN ret
                 ELSE LET j == from_str(text[1])
                      IN  IF j.kind = "ok" THEN MapInsert(ret, rev_id[1], j.val)
                          ELSE MapInsert(ret, rev_id[1], JNull)

\* extract_revisions: the body of the loop over the revisions of a page.
RevisionStep(ret, revision, rev_id_old, rev_id_new) ==
    LET rev_id == as_u64(Index(revision, "revid"))
    IN  IF rev_id = <<>> THEN ret
        ELSE IF rev_id[1] # rev_id_old /\ rev_id[1] # rev_id_new THEN ret
        ELSE LET text == as_str(Index(Index(Index(revision, "slots"), "main"), "*"))
             IN  IF text = <<>> THEN ret
                 ELSE LET j == from_str(text[1])
                      IN  IF j.kind = "ok" THEN MapInsert(ret, rev_id[1], j.val)
                          ELSE ret

RECURSIVE RevisionsLoop(_, _, _, _)
RevisionsLoop(revisions, ret, rev_id_old, rev_id_new) ==
    IF revisions = <<>> THEN ret
    ELSE RevisionsLoop(Tail(revisions),
                       RevisionStep(ret, Head(revisions), rev_id_old, rev_id_new),
                       rev_id_old, rev_id_new)

\* The page ids of the replies, in the order of the map.
PageOrder == <<"138">>

\* RevisionCompare::extract_revisions
extract_revisions(rev_id_old, rev_id_new, j) ==
    LET query == Get(j, "query")
    IN  IF query = <<>> THEN EmptyMap
        ELSE LET pages == json_object(query[1], "pages")
                 keys  == SelectSeq(PageOrder, LAMBDA k : k \in DOMAIN pages)
                 revisions == Flatten([i \in DOMAIN keys |->
                                          json_array(pages[keys[i]], "revisions")])
             IN  RevisionsLoop(revisions, EmptyMap, rev_id_old, rev_id_new)

\* RevisionCompare::get_revisions_for_item, given what
\* client.get(url).send().await?.json().await? returned.
get_revisions_for_item(rev_id_old, rev_id_new, sent) ==
    IF sent.kind # "ok" THEN Err
    ELSE Ok(extract_revisions(rev_id_old, rev_id_new, sent.val))

\* A revision of the reply.
RevisionObj(revid, text) ==
    JObj([revid |-> revid, slots |-> JObj([main |-> JObj("*" :> text)])])

\* The work unit of the task, and the revisions a reply can hold for it: the
\* two it asks for and another one, each with content that parses, content
\* that does not parse or no content, and a revision without a numeric id.
RunTask == [q |-> Q2, old |-> 100, new |-> 105]

RevisionChoices ==
    UNION {{RevisionObj(JNum(n), c) : c \in {Text(Wiki(Q2, n)), Garbled, JNull}} :
              n \in {100, 103, 105}}
    \cup {RevisionObj(JStr("105"), Text(Wiki(Q2, 105)))}

ReplyWith(revisions) ==
    JObj([query |-> JObj([pages |-> JObj("138" :> JObj([revisions |-> JArr(revisions)]))])])

\* The request fails, the reply has no `query`, or it has a page of revisions.
Replies ==
    {Err, Ok(JObj([batchcomplete |-> JStr("")]))}
    \cup {Ok(ReplyWith(revisions)) : revisions \in BoundedSeq(RevisionChoices, MaxRevisions)}

RunInit ==
    /\ pc = "run_input"
    /\ task = RunTask
    /\ reply \in Replies
    /\ task_out = Ok(<<>>)
    /\ events = <<>> /\ rc = NoResults
    /\ rev_old = JNull /\ rev_new = JNull /\ diff = Ok(<<>>)
    /\ NoCycle /\ pool = NoPool
    /\ rc_twice = NoResults /\ fallback = <<>> /\ last_ts = <<>>
    /\ codec_in = <<>> /\ codec_out = Ok(0)
    /\ calls = <<>>

\* revision_compare.run(&ci.q, ci.old, ci.new)
Run ==
    /\ pc = "run_input"
    /\ task_out' = run(task, get_revisions_for_item(task.old, task.new, reply))
    /\ pc' = "run_done"
    /\ UNCHANGED <<aggVars, diffVars, storeVars, wdrcVars, cycleVars, pool, mainVars, rc_twice,
                   fallback, last_ts, codec_in, codec_out, calls, task, reply>>

RunNext == Run

SpecRun == RunInit /\ [][RunNext]_vars

---------------------------------------------------------------------------
(* The change-record write path run twice over one window: log_changes of a
   cycle and of the next cycle, which reads the same feed rows again *)

\* The changed items of the window.
RewriteUnits ==
    { [q |-> Q2, timestamp |-> T2, new |-> 105, old |-> 100],
      [q |-> Q1, timestamp |-> T0, new |-> 101, old |-> 100] }

\* The result of the task of a work unit whose two revisions were fetched.
Fetched(ci) ==
    [unit |-> ci, out |-> run_task(ci, Ok([rev \in {ci.old, ci.new} |-> Wiki(ci.q, rev)]))]

\* The results of the tasks of the units U in every order of completion.
Completions(U) == {[i \in DOMAIN p |-> Fetched(p[i])] : p \in Perms(U)}

RewriteInit ==
    /\ pc = "log_statement_changes"
    /\ \E U \in SUBSET RewriteUnits \ {{}} : completed \in Completions(U)
    /\ changes = CollectChanges(completed)
    /\ texts \in {<<>>, <<"en">>}
    /\ text_cache \in {EmptyMap, LoadTexts(texts)}
    /\ statements = {} /\ labels = {}
    /\ pass = 1 /\ first_pass = NoPass
    /\ failures = {} /\ run_result = Ok(0)
    /\ meta = [k \in MetaKeys |-> <<>>] /\ start_meta = meta
    /\ creations = EmptyMap /\ deletions = EmptyMap /\ redirects = {}
    /\ max_recent_changes = 0 /\ rc_oldest = <<>> /\ feed = <<>>
    /\ queue = <<>> /\ in_flight = {}
    /\ del = NoFuture /\ red = NoFuture /\ cycles = 0
    /\ command = "" /\ hung = {}
    /\ events = <<>> /\ rc = NoResults
    /\ rev_old = JNull /\ rev_new = JNull /\ diff = Ok(<<>>)
    /\ pool = NoPool /\ NoUnit

\* The first log_changes has returned Ok.  The next cycle reads the same
\* rows, its tasks fetch the same revisions and complete in any order, and
\* log_changes runs again, in the same process or in one started anew.
WriteAgain ==
    /\ pc = "set_key_value"
    /\ pass = 1
    /\ first_pass' = [statements |-> statements, labels |-> labels, failed |-> failures]
    /\ pass' = 2
    /\ failures' = {}
    /\ completed' \in Completions({completed[i].unit : i \in DOMAIN completed})
    /\ changes' = CollectChanges(completed')
    /\ text_cache' \in {text_cache, EmptyMap}
    /\ pc' = "log_statement_changes"
    /\ UNCHANGED <<aggVars, diffVars, storeVars, max_recent_changes, rc_oldest, feed,
                   queue, in_flight, del, red, run_result, cycles, start_meta, pool,
                   command, hung, unitVars>>

RewriteNext ==
    \/ LogStatementChanges \/ LogSitelinksChanges \/ LogLabelChanges
    \/ WriteAgain

SpecRewrite == RewriteInit /\ [][RewriteNext]_vars

---------------------------------------------------------------------------
(* Claims about the aggregator, checked under SpecAggregate *)

\* Positions of the edit events of title q in the batch.
EditEvents(q) == {i \in DOMAIN events : ~events[i].rc_new /\ events[i].rc_title = q}

MinOf(S) == CHOOSE m \in S : \A x \in S : m <= x
MaxOf(S) == CHOOSE m \in S : \A x \in S : x <= m

\* C9: the aggregator yields exactly one changed-item work unit per distinct
\* title that has at least one edit event; its old revision is the previous
\* revision of the first edit event of that title, its new revision the
\* maximum current revision over all edit events of that title.
C9_ChangedItemFold ==
    pc = "agg_done" =>
        LET ci == rc.changed_items
        IN  /\ \A i, j \in DOMAIN ci : ci[i].q = ci[j].q => i = j
            /\ {ci[i].q : i \in DOMAIN ci} =
                   {events[i].rc_title : i \in {k \in DOMAIN events : ~events[k].rc_new}}
            /\ \A i \in DOMAIN ci :
                   /\ ci[i].old = events[MinOf(EditEvents(ci[i].q))].rc_last_oldid
                   /\ ci[i].new =
                          MaxOf({events[k].rc_this_oldid : k \in EditEvents(ci[i].q)})

\* C9 witness: a title folded from several edit events whose first event does
\* not carry the largest revision or the last-seen old revision, next to
\* another changed title.
C9_Witness ==
    /\ pc = "agg_done"
    /\ Len(rc.changed_items) = 2
    /\ \E i \in DOMAIN rc.changed_items :
          LET E == EditEvents(rc.changed_items[i].q)
          IN  /\ Cardinality(E) = 2
              /\ events[MaxOf(E)].rc_this_oldid < events[MinOf(E)].rc_this_oldid
              /\ events[MaxOf(E)].rc_last_oldid # events[MinOf(E)].rc_last_oldid
              /\ rc.changed_items[i].new = events[MinOf(E)].rc_this_oldid
              /\ rc.changed_items[i].old = events[MinOf(E)].rc_last_oldid

\* C10: aggregating [creation of Q1 at 20240101000000, edit of Q2 100->101 at
\* 20240101000100, edit of Q2 100->105 at 20240101000200] yields
\* newItems = [{Q1, 20240101000000}] and changedItems = [{Q2, old=100,
\* new=105, timestamp=20240101000200}].
C10_ScenarioResult ==
    (pc = "agg_done" /\ events = ScenarioEvents) =>
        /\ rc.new_items = << [q |-> Q1, timestamp |-> T0] >>
        /\ rc.changed_items =
               << [q |-> Q2, timestamp |-> T2, new |-> 105, old |-> 100] >>

\* The (title, old revision, new revision) of the changed items of a result.
RevisionsOf(r) ==
    {<<r.changed_items[i].q, r.changed_items[i].old, r.changed_items[i].new>> :
        i \in DOMAIN r.changed_items}

\* C11: aggregating a batch followed by itself yields the same changed items
\* with the same old (first seen) and new (maximum) revision as aggregating
\* the batch once.
C11_AggregatorIdempotent ==
    (pc \in {"agg_twice", "agg_last"}) =>
        /\ Len(rc_twice.changed_items) = Len(rc.changed_items)
        /\ RevisionsOf(rc_twice) = RevisionsOf(rc)

\* C11 witness: a title with two edit events, the second one with the larger
\* new revision and another old revision, aggregated once and twice.
C11_Witness ==
    /\ pc = "agg_twice"
    /\ \E i \in DOMAIN rc.changed_items :
          LET E == EditEvents(rc.changed_items[i].q)
          IN  /\ Cardinality(E) = 2
              /\ events[MinOf(E)].rc_this_oldid < events[MaxOf(E)].rc_this_oldid
              /\ events[MinOf(E)].rc_last_oldid # events[MaxOf(E)].rc_last_oldid
              /\ <<rc.changed_items[i].q, events[MinOf(E)].rc_last_oldid,
                    events[MaxOf(E)].rc_this_oldid>> \in RevisionsOf(rc_twice)

\* C12: get_last_rc_timetamp never returns a value less than the fallback it
\* is given, and it returns the fallback exactly when there are no changed
\* items.
C12_LastTimestampAtLeastFallback ==
    (pc = "agg_last") =>
        /\ StrLe(fallback, last_ts)
        /\ (last_ts = fallback) <=> (rc.changed_items = <<>>)

---------------------------------------------------------------------------
(* Claims about the diff engine, checked under SpecDiff.  The documents    *)
(* are read here field by field, not through the engine's accessors.       *)

\* The entries of a section of a document (none when the section is missing).
Entries(doc, section) ==
    IF IsObj(doc) /\ section \in DOMAIN doc.obj /\ IsObj(doc.obj[section])
    THEN doc.obj[section].obj ELSE EmptyMap

\* Every entry of the section is an object whose `field` is a string.
StringValued(doc, section, field) ==
    \A k \in DOMAIN Entries(doc, section) :
        LET e == Entries(doc, section)[k]
        IN  IsObj(e) /\ field \in DOMAIN e.obj /\ IsStr(e.obj[field])

TextOf(doc, section, k, field) == Entries(doc, section)[k].obj[field].str

\* The records of the diff for one subject.
RecordsOf(subject) == SelectSeq(diff.val, LAMBDA c : c.subject = subject)

\* The label rule for one key k: old and new are the two sections, recs the
\* records about k, carried the field of a record that holds the text.
KeyedRule(section, field, k, recs, carried) ==
    LET inOld == k \in DOMAIN Entries(rev_old, section)
        inNew == k \in DOMAIN Entries(rev_new, section)
    IN  /\ (inOld /\ inNew /\ TextOf(rev_old, section, k, field) = TextOf(rev_new, section, k, field))
               => recs = <<>>
        /\ (inOld /\ inNew /\ TextOf(rev_old, section, k, field) # TextOf(rev_new, section, k, field))
               => /\ Len(recs) = 1
                  /\ recs[1].change_type = "changed"
                  /\ recs[1][carried] = TextOf(rev_new, section, k, field)
        /\ (inOld /\ ~inNew)
               => /\ Len(recs) = 1
                  /\ recs[1].change_type = "removed"
                  /\ recs[1][carried] = TextOf(rev_old, section, k, field)
        /\ (~inOld /\ inNew)
               => /\ Len(recs) = 1
                  /\ recs[1].change_type = "added"
                  /\ recs[1][carried] = TextOf(rev_new, section, k, field)

\* C5: for old/new documents whose label (resp. description) values are
\* strings and every language L: equal text in both gives no record for L;
\* different text exactly one Changed record with the new text; L only in old
\* exactly one Removed record with the old text; L only in new exactly one
\* Added record with the new text.
C5_LabelRule ==
    (pc = "diff_done" /\ diff.kind = "ok") =>
        \A section \in {"labels", "descriptions"} :
            (StringValued(rev_old, section, "value") /\ StringValued(rev_new, section, "value"))
            => \A L \in {"en", "de"} :
                   KeyedRule(section, "value", L,
                       SelectSeq(RecordsOf(section), LAMBDA c : c.language = L),
                       "text")

\* C5 witness: a description changed in one language and added in another,
\* reported as exactly these two records.
C5_Witness ==
    /\ pc = "diff_done" /\ diff.kind = "ok"
    /\ StringValued(rev_old, "descriptions", "value")
    /\ StringValued(rev_new, "descriptions", "value")
    /\ DOMAIN Entries(rev_old, "descriptions") = {"en"}
    /\ DOMAIN Entries(rev_new, "descriptions") = {"en", "de"}
    /\ TextOf(rev_old, "descriptions", "en", "value") # TextOf(rev_new, "descriptions", "en", "value")
    /\ Len(diff.val) = 2
    /\ {diff.val[i].change_type : i \in DOMAIN diff.val} = {"changed", "added"}

\* C8: the sitelinks diff follows the label rule keyed by site code and
\* comparing `title`: equal titles give no record, different titles exactly one
\* Changed record with the new title, a site only in old exactly one Removed
\* record with the old title, a site only in new exactly one Added record with
\* the new title.
C8_SitelinkRule ==
    (pc = "diff_done" /\ diff.kind = "ok"
        /\ StringValued(rev_old, "sitelinks", "title")
        /\ StringValued(rev_new, "sitelinks", "title"))
        => \A S \in {"enwiki", "dewiki"} :
               KeyedRule("sitelinks", "title", S,
                   SelectSeq(RecordsOf("sitelinks"), LAMBDA c : c.site = S),
                   "title")

\* C8 witness: one site kept with the same title, the other site only in old,
\* reported as a single Removed record.
C8_Witness ==
    /\ pc = "diff_done" /\ diff.kind = "ok"
    /\ StringValued(rev_old, "sitelinks", "title")
    /\ StringValued(rev_new, "sitelinks", "title")
    /\ DOMAIN Entries(rev_old, "sitelinks") = {"enwiki", "dewiki"}
    /\ DOMAIN Entries(rev_new, "sitelinks") = {"enwiki"}
    /\ TextOf(rev_old, "sitelinks", "enwiki", "title") = TextOf(rev_new, "sitelinks", "enwiki", "title")
    /\ Len(diff.val) = 1
    /\ diff.val[1].change_type = "removed" /\ diff.val[1].site = "dewiki"

\* Every language of the aliases section holds an array of objects with a
\* string value.
AliasListsOfStrings(doc) ==
    \A L \in DOMAIN Entries(doc, "aliases") :
        LET a == Entries(doc, "aliases")[L]
        IN  IsArr(a) /\ \A i \in DOMAIN a.arr :
                IsObj(a.arr[i]) /\ "value" \in DOMAIN a.arr[i].obj /\ IsStr(a.arr[i].obj.value)

\* The alias texts of language L (none when the language is missing).
AliasTexts(doc, L) ==
    IF L \in DOMAIN Entries(doc, "aliases")
    THEN {Entries(doc, "aliases")[L].arr[i].obj.value.str :
             i \in DOMAIN Entries(doc, "aliases")[L].arr}
    ELSE {}

\* C7: the alias diff is the symmetric difference per language: the Removed
\* records for L are exactly the texts of the old list that are not in the
\* new list, the Added records exactly the texts of the new list that are not
\* in the old list, and a text in both lists has no record.
C7_AliasSymmetricDifference ==
    (pc = "diff_done" /\ diff.kind = "ok"
        /\ AliasListsOfStrings(rev_old) /\ AliasListsOfStrings(rev_new))
        => \A L \in {"en", "de"} :
               LET recs == SelectSeq(RecordsOf("aliases"), LAMBDA c : c.language = L)
                   old  == AliasTexts(rev_old, L)
                   new  == AliasTexts(rev_new, L)
               IN  /\ {recs[i].text : i \in {k \in DOMAIN recs : recs[k].change_type = "removed"}}
                          = old \ new
                   /\ {recs[i].text : i \in {k \in DOMAIN recs : recs[k].change_type = "added"}}
                          = new \ old
                   /\ \A i \in DOMAIN recs :
                          /\ recs[i].change_type \in {"removed", "added"}
                          /\ recs[i].text \notin old \cap new

\* C7 witness: old = [a, b], new = [b, c] gives Removed(en, a) and
\* Added(en, c) and nothing else.
C7_Witness ==
    /\ pc = "diff_done" /\ diff.kind = "ok"
    /\ rev_old = DocWith("aliases", JObj([en |-> AliasList(<<"a", "b">>)]))
    /\ rev_new = DocWith("aliases", JObj([en |-> AliasList(<<"b", "c">>)]))
    /\ Len(diff.val) = 2
    /\ diff.val[1].change_type = "removed" /\ diff.val[1].text = "a"
    /\ diff.val[2].change_type = "added" /\ diff.val[2].text = "c"

\* The places of the claims of a document: (property, position in its array).
Slots(doc) ==
    UNION {{<<p, i>> : i \in DOMAIN Entries(doc, "claims")[p].arr} :
              p \in DOMAIN Entries(doc, "claims")}

ClaimAt(doc, slot) == Entries(doc, "claims")[slot[1]].arr[slot[2]]

\* Every property holds an array of objects with a string id, and no two
\* claims of the document share an id.
DistinctIds(doc) ==
    /\ \A p \in DOMAIN Entries(doc, "claims") : IsArr(Entries(doc, "claims")[p])
    /\ \A s \in Slots(doc) :
           /\ IsObj(ClaimAt(doc, s))
           /\ "id" \in DOMAIN ClaimAt(doc, s).obj
           /\ IsStr(ClaimAt(doc, s).obj.id)
    /\ \A s, t \in Slots(doc) :
           ClaimAt(doc, s).obj.id = ClaimAt(doc, t).obj.id => s = t

IdsOf(doc) == {ClaimAt(doc, s).obj.id.str : s \in Slots(doc)}

SlotOf(doc, id) == CHOOSE s \in Slots(doc) : ClaimAt(doc, s).obj.id.str = id

\* C6: the claims diff matches claims by claim id, not by position or
\* property.  For documents whose claims all carry distinct ids: an id in both
\* with deep-equal content gives no record (so reordering gives none); an id in
\* both with a nested difference gives exactly one Changed record with that id
\* and its property (the one it has in the old document); an id only in old exactly one Removed record; an id only
\* in new exactly one Added record.
C6_ClaimsById ==
    (pc = "diff_done" /\ DistinctIds(rev_old) /\ DistinctIds(rev_new)) =>
        /\ diff.kind = "ok"
        /\ \A id \in IdsOf(rev_old) \cup IdsOf(rev_new) :
              LET recs  == SelectSeq(RecordsOf("claims"), LAMBDA c : c.id = id)
                  inOld == id \in IdsOf(rev_old)
                  inNew == id \in IdsOf(rev_new)
              IN  /\ (inOld /\ inNew /\
                        ClaimAt(rev_old, SlotOf(rev_old, id)) = ClaimAt(rev_new, SlotOf(rev_new, id)))
                         => recs = <<>>
                  /\ (inOld /\ inNew /\
                        ClaimAt(rev_old, SlotOf(rev_old, id)) # ClaimAt(rev_new, SlotOf(rev_new, id)))
                         => /\ Len(recs) = 1
                            /\ recs[1].change_type = "changed"
                            /\ recs[1].property = SlotOf(rev_old, id)[1]
                  /\ (inOld /\ ~inNew)
                         => /\ Len(recs) = 1
                            /\ recs[1].change_type = "removed"
                            /\ recs[1].property = SlotOf(rev_old, id)[1]
                  /\ (~inOld /\ inNew)
                         => /\ Len(recs) = 1
                            /\ recs[1].change_type = "added"
                            /\ recs[1].property = SlotOf(rev_new, id)[1]

\* C6 witness: the two claims of P1 change places and one of them changes its
\* value; the diff is the one Changed record of that claim.
C6_Witness ==
    /\ pc = "diff_done" /\ diff.kind = "ok"
    /\ rev_old = DocWith("claims", JObj([P1 |->
           JArr(<< ClaimObj("Q1$123", "old"), ClaimObj("Q1$124", "old") >>)]))
    /\ rev_new = DocWith("claims", JObj([P1 |->
           JArr(<< ClaimObj("Q1$124", "old"), ClaimObj("Q1$123", "new") >>)]))
    /\ Len(diff.val) = 1
    /\ diff.val[1].change_type = "changed"
    /\ diff.val[1].id = "Q1$123" /\ diff.val[1].property = "P1"

\* C16: the diff engine never raises an error or aborts: for every pair of
\* documents, also with a missing section, a section of the wrong type, a
\* label or sitelink without a string value or a claim without a string id,
\* compare_revisions returns a list of records.
C16_DiffNeverAborts == (pc = "diff_done") => diff.kind = "ok"

---------------------------------------------------------------------------
(* Claims about the sync cycle, checked under Spec *)

\* A persisted watermark a is not after b; the row of a key is never created
\* or removed.
WatermarkLe(a, b) ==
    \/ a = <<>> /\ b = <<>>
    \/ a # <<>> /\ b # <<>> /\ StrLe(a[1], b[1])

\* C1: no step of any cycle moves one of the three watermarks (timestamp,
\* timestamp_redirect, timestamp_deletion) backwards in the string order, and
\* a step changes a watermark only in a cycle whose query for that stream
\* returned at least one row: a cycle with zero rows leaves it unchanged.
C1_WatermarksNeverDecrease ==
    [][ /\ \A k \in MetaKeys : WatermarkLe(meta[k], meta'[k])
        /\ (meta'["timestamp"] # meta["timestamp"]) => events # <<>>
        /\ (meta'["timestamp_redirect"] # meta["timestamp_redirect"]) => red.results # <<>>
        /\ (meta'["timestamp_deletion"] # meta["timestamp_deletion"]) => del.results # <<>>
      ]_vars

\* All three watermarks have advanced within one cycle.
C1_Witness ==
    \A k \in MetaKeys :
        /\ start_meta[k] # <<>> /\ meta[k] # <<>>
        /\ StrLt(start_meta[k][1], meta[k][1])

\* The writes of the change-record path.
ChangeWrites == {"statements", "sitelinks", "labels"}

\* C2: when the statements, the sitelinks or the labels batch write of a
\* cycle has failed, run_once has returned, what it returned is the error of
\* that write, and the main watermark `timestamp` is what it was when the
\* cycle began.
C2_WriteFailureFailsCycle ==
    (failures \cap ChangeWrites # {}) =>
        /\ pc = "idle"
        /\ run_result.kind = "err"
        /\ run_result.val \in failures \cap ChangeWrites
        /\ meta["timestamp"] = start_meta["timestamp"]

\* The labels batch failed after the statements batch was written, in a cycle
\* whose changed items are newer than the watermark.
C2_Witness ==
    /\ pc = "idle"
    /\ "labels" \in failures
    /\ statements # {}
    /\ meta["timestamp"] # <<>>
    /\ StrLt(meta["timestamp"][1], get_last_rc_timetamp(rc, DefaultOldest))

\* What the diff engine returns for the two revisions of a work unit.
DiffOf(ci) ==
    run_task(ci, Ok([rev \in {ci.old, ci.new} |-> Wiki(ci.q, rev)]))

\* C4: when the pipeline has ended, every changed-item work unit has run to
\* completion exactly once, whether or not other tasks failed, and the
\* collected change records are the diffs of the tasks that succeeded, in
\* the order of completion; a failed task contributes nothing.
C4_FailedTaskContributesNothing ==
    (pc = "log_statement_changes") =>
        /\ Len(completed) = Len(rc.changed_items)
        /\ {completed[i].unit : i \in DOMAIN completed} = Range(rc.changed_items)
        /\ changes = Flatten([i \in DOMAIN completed |->
                                IF completed[i].out.kind = "ok"
                                THEN DiffOf(completed[i].unit).val ELSE <<>>])

\* The first task to complete failed, the second one succeeded with records.
C4_Witness ==
    /\ pc = "log_statement_changes"
    /\ Len(completed) = 2
    /\ completed[1].out.kind = "err"
    /\ completed[2].out.kind = "ok"
    /\ completed[2].out.val # <<>>
    /\ changes = completed[2].out.val

---------------------------------------------------------------------------
(* Claims about the bounded stream, checked under SpecPool *)

\* C3: at every moment of the pipeline the number of tasks that were started
\* and have not completed is at most MAX_API_CONCURRENT.
C3_InFlightAtMostCap == pool.in_flight <= MAX_API_CONCURRENT

\* The cap binds: fifty tasks in flight while work units are still waiting.
C3_Witness ==
    /\ pool.in_flight = MAX_API_CONCURRENT
    /\ pool.queued > 0

---------------------------------------------------------------------------
(* Claims about text interning, checked under SpecIntern *)

\* C13: two successful calls of get_or_create_text_id with the same text
\* return the same id, the later one adds no row to `texts`, and no text gets
\* more than one row written by the process.
C13_InternIdempotent ==
    (pc = "intern") =>
        /\ \A i, j \in DOMAIN calls :
              (i < j /\ calls[i].text = calls[j].text
                     /\ calls[i].id # <<>> /\ calls[j].id # <<>>)
                  => (calls[j].id = calls[i].id /\ calls[j].rows = 0)
        /\ \A t \in InternTexts :
              Cardinality({i \in DOMAIN calls : calls[i].text = t /\ calls[i].rows > 0}) <= 1

\* C13 witness: with a warm cache, a text that is not in the table is
\* interned twice in a row; the first call writes its row.
C13_Witness ==
    /\ pc = "intern" /\ Len(calls) = 3
    /\ calls[1].id # <<>> /\ calls[1].rows = 0
    /\ calls[2].text = calls[3].text
    /\ calls[2].id # <<>> /\ calls[2].rows = 1
    /\ calls[3].id = calls[2].id /\ calls[3].rows = 0

\* C14: the cache is append-only: in every step, every text of the cache
\* stays in the cache with the id it has.
C14_CacheAppendOnly ==
    [][\A t \in DOMAIN text_cache :
          t \in DOMAIN text_cache' /\ text_cache'[t] = text_cache[t]]_vars

\* C14 witness: the cache holds the rows of the warm load and two rows that
\* were added one after the other.
C14_Witness ==
    /\ pc = "intern" /\ Len(calls) = 2
    /\ calls[1].rows = 1 /\ calls[2].rows = 1
    /\ DOMAIN text_cache = {"en", "de", "enwiki"}
    /\ text_cache["en"] = 1
    /\ text_cache[calls[1].text] = calls[1].id[1]
    /\ text_cache[calls[2].text] = calls[2].id[1]

---------------------------------------------------------------------------
(* Claims about the identifier codec, checked under SpecCodec *)

\* C15: for every string, make_id_numeric returns either the number spelled
\* by the characters after the first one, which is then not zero, or an
\* error value; it returns an error when that remainder does not parse as an
\* unsigned integer (the empty string and one-character strings included) or
\* is zero, and it never aborts the process.
C15_CodecNeverAborts ==
    (pc = "codec_done") =>
        LET rest == IF codec_in = <<>> THEN <<>> ELSE Tail(codec_in)
            n    == ParseU64(rest)
        IN  /\ codec_out.kind \in {"ok", "err"}
            /\ (codec_out.kind = "ok") => (n.kind = "ok" /\ codec_out.val = n.val /\ n.val # 0)
            /\ (n.kind # "ok" \/ n.val = 0) => codec_out.kind = "err"

---------------------------------------------------------------------------
(* Claims about a fetch-diff task, checked under SpecRun.  The reply is    *)
(* read here field by field, not through the engine's accessors.           *)

\* The revisions of the reply (none when the request failed or the reply has
\* no query).
ReplyRevisions ==
    IF reply.kind = "ok" /\ "query" \in DOMAIN reply.val.obj
    THEN reply.val.obj.query.obj.pages.obj["138"].obj.revisions.arr
    ELSE <<>>

\* The positions of the revisions with id r whose content is a parseable
\* document.
Found(r) ==
    {i \in DOMAIN ReplyRevisions :
        LET revision == ReplyRevisions[i].obj
            content  == revision.slots.obj.main.obj["*"]
        IN  /\ revision.revid = [num |-> r]
            /\ DOMAIN content = {"str"}
            /\ content.str.json # <<>>}

DocFound(r) == ReplyRevisions[MaxOf(Found(r))].obj.slots.obj.main.obj["*"].str.json[1]

\* C17: run fails with an error, and yields no change records, whenever the
\* reply holds no parseable document for the old or for the new revision id;
\* when both are found it returns the diff of these two documents, whatever
\* other revisions the reply holds.
C17_RunNeedsBothRevisions ==
    (pc = "run_done") =>
        /\ (Found(task.old) = {} \/ Found(task.new) = {}) => task_out.kind = "err"
        /\ (Found(task.old) # {} /\ Found(task.new) # {}) =>
               task_out = compare_revisions([item_id |-> 2, revision_id |-> task.new],
                                            DocFound(task.old), DocFound(task.new))

\* C17 witness: the reply holds the new revision, a revision with another id
\* and the old revision with content that does not parse; the task fails.
C17_Witness ==
    /\ pc = "run_done"
    /\ Len(ReplyRevisions) = 3
    /\ Found(task.new) # {} /\ Found(103) # {}
    /\ Found(task.old) = {}
    /\ \E i \in DOMAIN ReplyRevisions : ReplyRevisions[i].obj.revid = [num |-> task.old]
    /\ task_out.kind = "err"

---------------------------------------------------------------------------
(* More claims about the sync cycle, checked under Spec *)

\* A refresh future of the cycle has returned an error.
RefreshFailed == del.res = "err" \/ red.res = "err"

\* The calls of get_recent_changes, log_recent_changes and log_new_items
\* whose error run_once returns.
MainPathCalls ==
    {"get_key_value", "recentchanges", "statements", "sitelinks", "labels",
     "make_id_numeric", "creations", "deletions"}

\* C18: an error of the redirects refresh or of the deletions refresh never
\* ends the cycle: the refresh phase is left only by the read of the main
\* watermark, and what run_once returns in such a cycle is the result of the
\* main path.
C18_RefreshErrorsDoNotAbort ==
    /\ (RefreshFailed /\ pc = "idle") =>
           (run_result.kind = "ok" \/ run_result.val \in MainPathCalls)
    /\ (RefreshFailed /\ pc = "refresh") => (del.pc # "done" \/ red.pc # "done" \/ ENABLED ReadWatermark)

\* C18 witness: both refreshes failed and the cycle has run its main path to
\* the end: change records are written and the main watermark has advanced.
C18_Witness ==
    /\ pc = "idle" /\ del.res = "err" /\ red.res = "err"
    /\ run_result.kind = "ok"
    /\ statements # {} /\ labels # {}
    /\ start_meta["timestamp"] # <<>>
    /\ StrLt(start_meta["timestamp"][1], meta["timestamp"][1])

\* The writes to the wdrc database while change records are persisted.
PersistenceWrites == {"texts", "statements", "sitelinks", "labels", "set_key_value"}

\* C19: when an INSERT into `texts`, the statements batch, a labels batch or
\* the update of the watermark has failed, the stage has stopped and the
\* cycle has ended in error.
C19_WriteFailuresPropagate ==
    (failures \cap PersistenceWrites # {}) => (pc = "idle" /\ run_result.kind = "err")

\* C20: after a cycle with changed items whose change-record writes all
\* succeeded, the main watermark is the maximum timestamp of the changed
\* items; after a cycle without changed items it is what it was.
C20_WatermarkIsMaxProcessed ==
    (pc = "idle" /\ cycles > 0 /\ run_result.kind = "ok") =>
        IF rc.changed_items # <<>>
        THEN meta["timestamp"] =
                 << StrMax({rc.changed_items[i].timestamp : i \in DOMAIN rc.changed_items}) >>
        ELSE meta["timestamp"] = start_meta["timestamp"]

---------------------------------------------------------------------------
(* Claims about the order of the steps of a cycle, checked under Spec *)

\* C21 as stated: every cycle that read and aggregated the feed batch runs
\* log_new_items, whatever step 5 did: run_once returns from such a cycle
\* only out of log_new_items.
C21_NewItemsInEveryCycle ==
    [][(pc # "idle" /\ pc' = "idle" /\ feed' # <<>>) => pc = "log_new_items"]_vars

\* C21, amended: in every cycle that read and aggregated the feed batch and
\* in which no batch write of step 5 failed, log_new_items is executed, and
\* it is executed right after step 5: after the update of the watermark,
\* whatever records step 5 wrote and whether or not the update succeeded, or
\* after the early return of log_recent_changes when there is no changed
\* item.
C21_NewItemsAfterStep5 ==
    [][ /\ (pc = "set_key_value") => pc' = "log_new_items"
        /\ (pc # "log_new_items" /\ pc' = "log_new_items") =>
               \/ pc = "set_key_value"
               \/ pc = "get_next_recent_changes_batch" /\ rc'.changed_items = <<>>
        /\ (pc # "idle" /\ pc' = "idle" /\ feed' # <<>>
                /\ failures' \cap ChangeWrites = {}) => pc = "log_new_items"
      ]_vars

\* Step 5 had changed items and no record to write (every task failed), and
\* log_new_items has written the new item of the batch.
C21_Witness ==
    /\ pc = "idle" /\ cycles > 0 /\ run_result.kind = "ok"
    /\ rc.changed_items # <<>> /\ changes = <<>>
    /\ rc.new_items # <<>>
    /\ DOMAIN creations = {make_id_numeric(rc.new_items[i].q).val : i \in DOMAIN rc.new_items}

---------------------------------------------------------------------------
(* Claims about main, checked under Spec *)

---------------------------------------------------------------------------
(* Claims about the new-item step, checked under Spec *)

\* The numeric id of the i-th new item of the batch.
NewItemId(i) == make_id_numeric(rc.new_items[i].q).val

\* C22: when log_new_items returns Ok for a batch with new items, every new
\* item has a row in `creations` with the timestamp of its work unit and no
\* row in `deletions`, and a row the step removes from `deletions` belongs
\* to a new item whose deletion was recorded with a timestamp before that of
\* its creation.
C22_CreationSupersedesPriorDeletion ==
    [][(pc = "log_new_items" /\ pc' = "idle" /\ run_result'.kind = "ok"
            /\ rc.new_items # <<>>) =>
          /\ \A i \in DOMAIN rc.new_items :
                /\ NewItemId(i) \in DOMAIN creations'
                /\ creations'[NewItemId(i)] = rc.new_items[i].timestamp
                /\ NewItemId(i) \notin DOMAIN deletions'
          /\ \A q \in DOMAIN deletions \ DOMAIN deletions' :
                \E i \in DOMAIN rc.new_items :
                    /\ NewItemId(i) = q
                    /\ StrLt(deletions[q], rc.new_items[i].timestamp)
      ]_vars

---------------------------------------------------------------------------
(* Claims about the concurrent phase, checked under Spec *)

\* C23: a step that changes the text cache, the table `texts` or the main
\* watermark is taken only when the concurrent phase of the cycle is over:
\* no future is in progress, none is waiting and every changed item has its
\* result.  While a task is in flight the three are left alone.
C23_MutationAfterConcurrentPhase ==
    [][(text_cache' # text_cache \/ texts' # texts
            \/ meta'["timestamp"] # meta["timestamp"]) =>
          /\ in_flight = {} /\ queue = <<>>
          /\ Len(completed) = Len(rc.changed_items)
      ]_vars

\* Two tasks have been in flight together, and after the stream ended the
\* cycle has added a row to `texts`, filled the cache and moved the watermark.
C23_Witness ==
    /\ pc = "log_new_items"
    /\ Len(completed) > 1
    /\ Len(texts) > 1 /\ DOMAIN text_cache = Range(texts)
    /\ meta["timestamp"] # start_meta["timestamp"]

---------------------------------------------------------------------------
(* Claims about re-processing, checked under SpecRewrite *)

---------------------------------------------------------------------------
(* Claims about malformed identifiers in the batches, checked under Spec *)

\* The rows of a refresh batch whose identifiers all decode.
WellFormed(rows, fields) ==
    SelectSeq(rows, LAMBDA r : \A f \in fields : make_id_numeric(r[f]).kind = "ok")

---------------------------------------------------------------------------
(* Claims about the records of the pipeline, checked under Spec *)

---------------------------------------------------------------------------
(* Claims about a fetch that never returns, checked under SpecHang *)

\* The pipeline has nothing left to do but wait for the fetch that hangs.
OthersDone == queue = <<>> /\ in_flight = hung

\* C28: a fetch that never completes holds up its own task only.  The other
\* work units of the batch are fetched and diffed; and once they are, the
\* cycle leaves the stream and goes on to persist the change records they
\* returned.  (A cycle that stops in the panic of a task is left aside.)
C28_HungFetchBlocksOnlyItsSlot ==
    /\ (hung # {}) ~> (pc = "panicked" \/ OthersDone)
    /\ (hung # {} /\ OthersDone /\ CollectChanges(completed) # <<>>) ~> (pc # "pipeline")

---------------------------------------------------------------------------
(* Claims about termination, checked under FairSpec *)

\* C29: when every database call and every fetch returns, a cycle that has
\* left Idle comes back to Idle: run_once returns.
C29_EveryCycleReturns ==
    (pc # "idle") ~> (pc = "idle")

---------------------------------------------------------------------------
(* Claims about the order of completion, checked under Spec *)

\* What the task of a work unit returned.
OutOf(unit) == completed[CHOOSE i \in DOMAIN completed : completed[i].unit = unit].out

\* The records of the tasks that succeeded, in the order of submission (the
\* order of rc.changed_items) instead of the order of completion.
InOrder ==
    Flatten([i \in DOMAIN rc.changed_items |->
                IF OutOf(rc.changed_items[i]).kind = "ok"
                THEN OutOf(rc.changed_items[i]).val ELSE <<>>])

\* A sequence as a multiset.
BagOf(seq) == [x \in Range(seq) |-> Cardinality({i \in DOMAIN seq : seq[i] = x})]

\* The rows of `labels` that log_changes writes for the records cs when it
\* starts with an empty cache on the table `texts` of the start and no call
\* fails.
LabelRowsFor(cs) ==
    LET sites == CHOOSE o \in LabelParts(SitelinkChanges(cs), "site",
                                         [cache |-> EmptyMap, texts |-> StartTexts], <<>>) :
                     o.failed = {}
        langs == CHOOSE o \in LabelParts(LabelChanges(cs), "language", sites.st, <<>>) :
                     o.failed = {}
    IN  Range(sites.parts) \cup Range(langs.parts)

\* The text a record is interned by: the site of a sitelink change, the
\* language of a label, description or alias change.
InternedText(c) == IF c.subject = "sitelinks" THEN c.site ELSE c.language

\* The records of cs that go to `labels`.
LabelRecords(cs) == Range(SitelinkChanges(cs)) \cup Range(LabelChanges(cs))

\* The first cycle has collected the results of its tasks and written
\* everything, no call having failed.
FirstCycleWritten ==
    /\ pc = "log_new_items" /\ cycles = 1 /\ failures = {}
    /\ rc.changed_items # <<>>

\* The main watermark after the update by log_recent_changes.
WatermarkFor(r) ==
    set_key_value(start_meta, "timestamp", get_last_rc_timetamp(r, DefaultOldest))["timestamp"]

\* C30 as stated: whatever the order in which the tasks complete, the
\* collected records are the same multiset, the rows written to `statements`
\* and `labels` are the same rows and the watermark is the same: they are
\* what the order of submission gives.
C30_SameRowsInEveryOrder ==
    FirstCycleWritten =>
        /\ BagOf(changes) = BagOf(InOrder)
        /\ statements = Range(StatementValues(InOrder))
        /\ labels = LabelRowsFor(InOrder)
        /\ meta["timestamp"] = WatermarkFor(rc)

\* C30, amended: whatever the order in which the tasks complete, the
\* collected records are the same multiset, the rows of `statements` and the
\* watermark are the same, and the rows of `labels` are the same once the id
\* in the column `language` is read as the text it stands for; `texts` holds
\* the same texts, each once.  The id a text new to `texts` is given depends
\* on the order of completion.
C30_SameRowsUpToTextIds ==
    FirstCycleWritten =>
        /\ BagOf(changes) = BagOf(InOrder)
        /\ statements = Range(StatementValues(InOrder))
        /\ {[r EXCEPT !.language = texts[r.language]] : r \in labels}
               = {get_label_log(c, InternedText(c)) : c \in LabelRecords(InOrder)}
        /\ Range(texts) = Range(StartTexts) \cup {InternedText(c) : c \in LabelRecords(InOrder)}
        /\ Cardinality(Range(texts)) = Len(texts)
        /\ meta["timestamp"] = WatermarkFor(rc)

\* Two tasks, each with a sitelink to a site new to `texts`, have completed
\* in the reverse of the order of submission, and the rows of `labels` carry
\* other ids than the order of submission would have given.
C30_Witness ==
    /\ FirstCycleWritten
    /\ Len(completed) = 2
    /\ completed[1].unit = rc.changed_items[2]
    /\ Len(texts) = Len(StartTexts) + 2
    /\ labels # LabelRowsFor(InOrder)

---------------------------------------------------------------------------
(* Claims about the two refreshes of step 1, checked under Spec *)

\* Where update_recent_deletions, run on its own from the watermarks m and
\* the table d, can leave its watermark and its table: nothing written (a
\* call failed, or no row had a valid id), the table written and the
\* watermark not (set_key_value failed), both written.
DelAlone(m, d) ==
    LET oldest == unwrap_or(get_key_value(m, "timestamp_deletion"), DefaultOldest)
        Loop(t) == DeletionsLoop(get_recent_deletions(t, oldest), 1,
                                 [updates |-> <<>>, new_ts |-> oldest, panic |-> FALSE])
        written == {t \in DeletionFeeds : ~Loop(t).panic /\ Loop(t).updates # <<>>}
    IN  {<<m["timestamp_deletion"], d>>}
        \cup {<<m["timestamp_deletion"], ReplaceByQ(d, Loop(t).updates)>> : t \in written}
        \cup {<<set_key_value(m, "timestamp_deletion", Loop(t).new_ts)["timestamp_deletion"],
                ReplaceByQ(d, Loop(t).updates)>> : t \in written}

\* The same for update_recent_redirects.
RedAlone(m, r) ==
    LET oldest == unwrap_or(get_key_value(m, "timestamp_redirect"), DefaultOldest)
        Loop(t) == RedirectsLoop(get_recent_redirects(t, oldest), 1,
                                 [updates |-> <<>>, new_ts |-> oldest, panic |-> FALSE])
        written == {t \in RedirectFeeds : ~Loop(t).panic /\ Loop(t).updates # <<>>}
    IN  {<<m["timestamp_redirect"], r>>}
        \cup {<<m["timestamp_redirect"], r \cup Range(Loop(t).updates)>> : t \in written}
        \cup {<<set_key_value(m, "timestamp_redirect", Loop(t).new_ts)["timestamp_redirect"],
                r \cup Range(Loop(t).updates)>> : t \in written}

\* C31: the two refreshes of step 1 are independent.  In the first cycle,
\* wherever the two futures are, each stream's watermark and table are as
\* that refresh leaves them when it runs on its own from the start of the
\* cycle, whatever the other has done or failed to do, and the main
\* watermark is untouched; and a step of one refresh changes neither the
\* other's locals nor the other's table nor the other's watermark.
C31_RefreshesAreIndependent ==
    /\ [](pc = "refresh" /\ cycles = 1 =>
            /\ <<meta["timestamp_deletion"], deletions>> \in DelAlone(start_meta, EmptyMap)
            /\ <<meta["timestamp_redirect"], redirects>> \in RedAlone(start_meta, {})
            /\ meta["timestamp"] = start_meta["timestamp"])
    /\ [][pc = "refresh" =>
            /\ del' # del =>
                  /\ red' = red /\ redirects' = redirects
                  /\ meta'["timestamp_redirect"] = meta["timestamp_redirect"]
            /\ red' # red =>
                  /\ del' = del /\ deletions' = deletions
                  /\ meta'["timestamp_deletion"] = meta["timestamp_deletion"]]_vars

\* Both refreshes have run, interleaved or not: the deletions refresh wrote
\* its table and failed on its watermark, the redirects refresh wrote its
\* table and advanced its watermark.
C31_Witness ==
    /\ pc = "refresh" /\ cycles = 1
    /\ del.pc = "done" /\ del.res = "err"
    /\ red.pc = "done" /\ red.res = "ok"
    /\ deletions # EmptyMap
    /\ meta["timestamp_deletion"] = start_meta["timestamp_deletion"]
    /\ redirects # {}
    /\ meta["timestamp_redirect"] # start_meta["timestamp_redirect"]

\* The timestamps of the rows of a refresh whose ids are all valid.
ValidTimestamps(rows, fields) ==
    {rows[i].timestamp : i \in {j \in DOMAIN rows :
                                   \A f \in fields : make_id_numeric(rows[j][f]).kind = "ok"}}

\* The rows of the batch of a refresh are in its table.
DelWritten == \A i \in DOMAIN del.updates :
                  /\ del.updates[i].q \in DOMAIN deletions
                  /\ StrLe(del.updates[i].timestamp, deletions[del.updates[i].q])
RedWritten == Range(red.updates) \subseteq redirects

\* A refresh returns Ok after it found rows with valid ids.
Succeeds(f) == f.pc = "set_key_value" /\ f'.pc = "done" /\ f'.res = "ok"

\* C32: in the two refreshes the watermark is written only after the batch
\* write of the stream has succeeded: a step changes the watermark of a
\* stream only when the stream's batch is in its table, so a failed batch
\* write and a batch without valid rows leave it unchanged; and when the
\* refresh succeeds after it found valid rows, the watermark is the maximum
\* of the old watermark and the timestamps of the rows with valid ids.
C32_WatermarkAfterBatchWrite ==
    [][ /\ meta'["timestamp_deletion"] # meta["timestamp_deletion"] =>
               /\ pc = "refresh" /\ del.pc = "set_key_value"
               /\ del.updates # <<>> /\ DelWritten
        /\ meta'["timestamp_redirect"] # meta["timestamp_redirect"] =>
               /\ pc = "refresh" /\ red.pc = "set_key_value"
               /\ red.updates # <<>> /\ RedWritten
        /\ Succeeds(del) =>
               meta'["timestamp_deletion"] =
                   << StrMax({del.oldest} \cup ValidTimestamps(del.results, {"q"})) >>
        /\ Succeeds(red) =>
               meta'["timestamp_redirect"] =
                   << StrMax({red.oldest} \cup ValidTimestamps(red.results, {"source", "target"})) >>
      ]_vars

\* The part of C32 that holds: as C32 when `meta` has a row for each
\* watermark.
C32_WithMetaRows ==
    [][ /\ meta'["timestamp_deletion"] # meta["timestamp_deletion"] =>
               /\ pc = "refresh" /\ del.pc = "set_key_value"
               /\ del.updates # <<>> /\ DelWritten
        /\ meta'["timestamp_redirect"] # meta["timestamp_redirect"] =>
               /\ pc = "refresh" /\ red.pc = "set_key_value"
               /\ red.updates # <<>> /\ RedWritten
        /\ Succeeds(del) /\ meta["timestamp_deletion"] # <<>> =>
               meta'["timestamp_deletion"] =
                   << StrMax({del.oldest} \cup ValidTimestamps(del.results, {"q"})) >>
        /\ Succeeds(red) /\ meta["timestamp_redirect"] # <<>> =>
               meta'["timestamp_redirect"] =
                   << StrMax({red.oldest} \cup ValidTimestamps(red.results, {"source", "target"})) >>
      ]_vars

---------------------------------------------------------------------------
(* Claims about the two output sets, checked under SpecAggregate *)

\* The positions of the creation events and of the edit events of a title.
CreationsOf(q) == {i \in DOMAIN events : events[i].rc_title = q /\ events[i].rc_new}
EditsOf(q) == {i \in DOMAIN events : events[i].rc_title = q /\ ~events[i].rc_new}

\* The titles of the batch.
Titles == {events[i].rc_title : i \in DOMAIN events}

\* The positions of the work units of a title in a list of work units.
UnitsOf(list, q) == {i \in DOMAIN list : list[i].q = q}

\* C33: the two output sets are built independently.  A title has one work
\* unit in new_items when the batch has a creation event for it and none
\* otherwise, and one work unit in changed_items when the batch has an edit
\* event for it and none otherwise, so a title with both is once in each;
\* the work unit of a created title carries the timestamp of its last
\* creation event in list order.
C33_OutputSetsAreIndependent ==
    pc # "agg_input" =>
        \A q \in Titles :
            /\ Cardinality(UnitsOf(rc.new_items, q)) = IF CreationsOf(q) = {} THEN 0 ELSE 1
            /\ Cardinality(UnitsOf(rc.changed_items, q)) = IF EditsOf(q) = {} THEN 0 ELSE 1
            /\ \A i \in UnitsOf(rc.new_items, q) :
                  rc.new_items[i].timestamp = events[MaxOf(CreationsOf(q))].rc_timestamp
            /\ Len(rc.new_items) = Cardinality({t \in Titles : CreationsOf(t) # {}})

\* A batch with two creation events of a title, the later in the list with
\* the smaller timestamp, and an edit event of the same title, aggregated.
C33_Witness ==
    /\ pc = "agg_done"
    /\ \E q \in Titles :
          /\ EditsOf(q) # {}
          /\ \E i, j \in CreationsOf(q) :
                i < j /\ StrLt(events[j].rc_timestamp, events[i].rc_timestamp)

---------------------------------------------------------------------------
(* Claims about the cursor of the main stream, checked under Spec *)

\* run_once has returned Ok from a cycle of the continuous mode in which
\* every call to the stores and every fetch succeeded, on a `meta` table
\* that holds the main watermark.
CycleWithoutFailure ==
    /\ pc = "idle" /\ cycles >= 1 /\ command = "bot"
    /\ run_result.kind = "ok" /\ failures = {}
    /\ del.res # "err" /\ red.res # "err"
    /\ \A i \in DOMAIN completed : completed[i].out.kind = "ok"
    /\ start_meta["timestamp"] # <<>>

\* The feed the cycle queried holds a row after the watermark the cycle
\* started with.
RowAfterWatermark ==
    \E i \in DOMAIN feed : StrLt(start_meta["timestamp"][1], feed[i].rc_timestamp)

\* C34: progress of the main stream.  The watermark a cycle leaves is a
\* function of the watermark it read and of the feed, so a cycle that leaves
\* the watermark where it was is repeated by every later cycle on the same
\* feed, and the cursor stays for ever.  Hence: a cycle of the continuous
\* mode in which every operation succeeded and whose feed holds a row after
\* the watermark ends with a greater watermark.
C34_MainWatermarkAdvances ==
    (CycleWithoutFailure /\ RowAfterWatermark) =>
        StrLt(start_meta["timestamp"][1], meta["timestamp"][1])

\* The rows of the feed inside the window of the cycle's query, and those of
\* them that LIMIT cut off.
WindowRows == SelectSeq(feed, LAMBDA r : InWindow(r, rc_oldest, upper_limit(rc_oldest)))
CutOff == {WindowRows[i] : i \in {j \in DOMAIN WindowRows : j > max_recent_changes}}

\* The rows of the feed after the upper bound of the window.
BeyondWindow == {feed[i] : i \in {j \in DOMAIN feed :
                                     StrLt(upper_limit(rc_oldest), feed[j].rc_timestamp)}}

\* A cycle has queried the feed and is past the update of the watermark.
PastWatermarkUpdate ==
    /\ pc \in {"log_new_items", "idle"} /\ cycles >= 1
    /\ feed # <<>> /\ meta["timestamp"] # <<>>

\* C35: the advance of the watermark skips no row that was not fetched.
\* After the update of a cycle the main watermark is not greater than the
\* greatest timestamp of the rows the cycle fetched, and every row of the
\* feed that LIMIT cut off or that lies after the upper bound of the window
\* has a timestamp greater than or equal to the watermark.
C35_AdvanceSkipsNoRow ==
    PastWatermarkUpdate =>
        /\ events # <<>> =>
              StrLe(meta["timestamp"][1],
                    StrMax({events[i].rc_timestamp : i \in DOMAIN events}))
        /\ \A r \in CutOff \cup BeyondWindow : StrLe(meta["timestamp"][1], r.rc_timestamp)

\* A cycle has advanced the watermark while LIMIT cut off rows of the window.
C35_Witness ==
    /\ PastWatermarkUpdate
    /\ CutOff # {}
    /\ start_meta["timestamp"] # <<>>
    /\ StrLt(start_meta["timestamp"][1], meta["timestamp"][1])

---------------------------------------------------------------------------
(* Claims about the cache and the table `texts`, checked under SpecIntern *)

\* The call that a step has added to the calls.
LastCall == calls'[Len(calls')]

\* C36: the cache is consistent with the table.  After any sequence of calls
\* of get_or_create_text_id, failed ones included, every entry (text, id) of
\* the cache is a row of `texts` with that id and that value; and a call
\* that returns Err (the load of the cache or the INSERT failed, or the
\* INSERT gave no insert id) adds no row and no entry for its text: the
\* cache is as it was or as the load of the table fills it.
C36_CacheEntriesAreRows ==
    /\ [](\A t \in DOMAIN text_cache :
             text_cache[t] \in DOMAIN texts /\ texts[text_cache[t]] = t)
    /\ [][(Len(calls') = Len(calls) + 1 /\ LastCall.id = <<>>) =>
             /\ texts' = texts
             /\ text_cache' \in {text_cache, LoadTexts(texts)}
             /\ LastCall.text \notin DOMAIN text_cache']_vars

\* With a warm cache a first call has added a row and its entry, and the
\* INSERT of a second call, for a text that is not in the table, has failed.
C36_Witness ==
    /\ pc = "intern" /\ Len(calls) >= 2
    /\ calls[1].id # <<>> /\ calls[1].rows = 1
    /\ calls[2].id = <<>>
    /\ calls[1].text \in DOMAIN text_cache
    /\ calls[2].text \notin DOMAIN text_cache

=============================================================================
